---- MODULE Spec2Model ----
(***************************************************************************)
(* Model of ripyl's I2C protocol support (ripyl/protocol/i2c.py) and of    *)
(* the record classes it builds on (ripyl/streaming.py):                   *)
(*   I2CTransfer.bytes / ack_bits, _i2c_synth / i2c_synth, i2c_decode and  *)
(*   reconstruct_i2c_transfers.                                            *)
(*                                                                         *)
(* Time is counted in integer ticks.  The synthesizer only ever adds       *)
(* half_bit_period / 2 and half_bit_period to its running time, so a       *)
(* clock frequency is represented by its quarter bit period `quarter`      *)
(* (half_bit_period / 2) in ticks; floating point rounding is not          *)
(* modelled.                                                               *)
(***************************************************************************)
EXTENDS Integers, Sequences, FiniteSets, TLC

VARIABLES
    transfers,   \* the I2CTransfer list handed to i2c_synth (<<>> when the edges are given)
    quarter,     \* half_bit_period / 2 of the synthesizer call, in ticks
    idle_start,  \* idle_start argument of i2c_synth, in ticks
    idle_end,    \* idle_end argument of i2c_synth, in ticks
    chan_order,  \* the channel MultiEdgeSequence serves first when two edges share a
                 \* timestamp: fixed by the build, "unset" until a tie first shows it
    syn,         \* the locals of the _i2c_synth generator and the pairs it has yielded
    edges,       \* session -> [scl, sda]: the edge streams handed to i2c_decode
    feed,        \* the producer of the edge streams: closed once the streams are complete
    dec,         \* session -> the locals of the i2c_decode generator and its edge cursor
    out,         \* session -> the records the i2c_decode generator has yielded so far
    rc,          \* the locals of the reconstruct_i2c_transfers generator
    tfers,       \* the I2CTransfer objects reconstruct_i2c_transfers has yielded so far
    pc,          \* session -> "synth" | "decode" | "recon" | "status" | "done"
    nstat        \* the value the last call of nested_status() returned, None before it

vars == <<transfers, quarter, idle_start, idle_end, chan_order, syn, edges, feed, dec, out, rc, tfers, pc,
          nstat>>

-----------------------------------------------------------------------------
(* Bounds of the model *)

MaxTransfers == 2
MaxData == 2
MaxQuarter == 2
MaxIdle == 1

-----------------------------------------------------------------------------
(* Program constants *)

\* Python's None for the time markers, the address cache and the pending byte
None == -1

I2C_Write == 0
I2C_Read == 1

S_IDLE == 0
S_ADDR == 1
S_ADDR_10B == 2
S_DATA == 3

R_S_ADDR == 0
R_S_DATA == 1

\* largest 7-bit address; above it the byte is the header of a 10-bit address
MaxAddr7 == 119
\* 0x78, the 10-bit header pattern 11110xx
Hdr10 == 120
\* 0xFFF, the invalid address substituted for an unresolvable 10-bit read
InvalidAddr == 4095

StreamStatus_Ok == 0
StreamStatus_Warning == 100
StreamStatus_Error == 200

-----------------------------------------------------------------------------
(* ripyl.util.bitops: split_bits and join_bits, most significant bit first *)

RECURSIVE split_bits(_, _)
split_bits(n, num_bits) ==
    IF num_bits = 0 THEN <<>>
    ELSE Append(split_bits(n \div 2, num_bits - 1), n % 2)

RECURSIVE join_bits(_)
join_bits(bits) ==
    IF bits = <<>> THEN 0
    ELSE 2 * join_bits(SubSeq(bits, 1, Len(bits) - 1)) + bits[Len(bits)]

-----------------------------------------------------------------------------
(* streaming.py / i2c.py record classes.  Every record is a TLA+ record of *)
(* one shape; a field a class does not have is None.                       *)

\* StreamRecord(kind, status) with its subrecords appended
StreamRecord(kind, status, subrecords) ==
    [kind |-> kind, status |-> status, time |-> None,
     start_time |-> None, end_time |-> None, data |-> None,
     ack_bit |-> None, r_wn |-> None, subrecords |-> subrecords]

\* the highest of the statuses of a record and of its subrecords, deeper ones left out
nested_status_one_level(rec) ==
    LET all == {rec.status} \cup {rec.subrecords[k].status : k \in 1..Len(rec.subrecords)}
    IN  CHOOSE m \in all : \A x \in all : x <= m

\* StreamRecord.nested_status(): the loop over self.subrecords from the k-th on,
\* cur_status carried along
RECURSIVE nested_status(_)
RECURSIVE NestedStatusLoop(_, _, _)
NestedStatusLoop(rec, k, cur_status) ==
    IF k > Len(rec.subrecords) THEN cur_status
    ELSE LET nstat_k == nested_status(rec.subrecords[k])
         IN  NestedStatusLoop(rec, k + 1, IF nstat_k > cur_status THEN nstat_k ELSE cur_status)

nested_status(rec) == NestedStatusLoop(rec, 1, rec.status)

StreamEvent(time, kind) ==
    [kind |-> kind, status |-> StreamStatus_Ok, time |-> time,
     start_time |-> None, end_time |-> None, data |-> None,
     ack_bit |-> None, r_wn |-> None, subrecords |-> <<>>]

I2CByte(bounds, data, ack_bit) ==
    [kind |-> "I2C byte", status |-> StreamStatus_Ok, time |-> None,
     start_time |-> bounds[1], end_time |-> bounds[2], data |-> data,
     ack_bit |-> ack_bit, r_wn |-> None, subrecords |-> <<>>]

I2CAddress(bounds, address, r_wn) ==
    [kind |-> "I2C address", status |-> StreamStatus_Ok, time |-> None,
     start_time |-> bounds[1], end_time |-> bounds[2], data |-> address,
     ack_bit |-> None, r_wn |-> r_wn, subrecords |-> <<>>]

\* na.subrecords.append(nb)
AppendSub(na, nb) == [na EXCEPT !.subrecords = Append(@, nb)]

\* the object held by a name that is None or was never bound
NoRecord == [kind |-> "None", status |-> StreamStatus_Ok, time |-> None,
             start_time |-> None, end_time |-> None, data |-> None,
             ack_bit |-> None, r_wn |-> None, subrecords |-> <<>>]

-----------------------------------------------------------------------------
(* I2CTransfer *)

I2CTransfer(r_wn, address, data) == [r_wn |-> r_wn, address |-> address, data |-> data]

\* bytes() with the header of a 10-bit address built without its upper bits
TransferBytesNoUpperBits(tfer) ==
    IF tfer.address <= MaxAddr7
    THEN <<tfer.address * 2 + (tfer.r_wn % 2)>> \o tfer.data
    ELSE LET first == Hdr10 * 2 + (tfer.r_wn % 2)
         IN  IF tfer.r_wn = 0
             THEN <<first, tfer.address % 256>> \o tfer.data
             ELSE <<first>> \o tfer.data

\* I2CTransfer.bytes(): the raw bytes including the formatted address
TransferBytes(tfer) ==
    IF tfer.address <= MaxAddr7
    THEN <<tfer.address * 2 + (tfer.r_wn % 2)>> \o tfer.data
    ELSE LET address_upper_bits == (tfer.address \div 256) % 4
             address_lower_bits == tfer.address % 256
             first == (Hdr10 + address_upper_bits) * 2 + (tfer.r_wn % 2)
         IN  IF tfer.r_wn = 0
             THEN <<first, address_lower_bits>> \o tfer.data
             ELSE <<first>> \o tfer.data

\* ack_bits() with the nack of a read put on its first data byte
TransferAckBitsFirstData(tfer) ==
    LET ack == (IF tfer.address <= MaxAddr7 THEN <<0>> ELSE <<0, 0>>)
               \o [k \in 1..Len(tfer.data) |-> 0]
        at == IF Len(tfer.data) = 0 THEN Len(ack) ELSE Len(ack) - Len(tfer.data) + 1
    IN  IF tfer.r_wn = I2C_Read
        THEN [ack EXCEPT ![at] = 1]
        ELSE ack

\* I2CTransfer.ack_bits()
TransferAckBits(tfer) ==
    LET ack == (IF tfer.address <= MaxAddr7 THEN <<0>> ELSE <<0, 0>>)
               \o [k \in 1..Len(tfer.data) |-> 0]
    IN  IF tfer.r_wn = I2C_Read
        THEN [ack EXCEPT ![Len(ack)] = 1]
        ELSE ack

-----------------------------------------------------------------------------
(* _i2c_synth: the raw generator.  st holds its locals t, scl, sda, the    *)
(* loop positions i (transfer) and j (byte), and raw, the pairs            *)
(* ((t, scl), (t, sda)) it has yielded.                                    *)

SynInit == [t |-> 0, scl |-> 1, sda |-> 1, i |-> 1, j |-> 1, stage |-> "initial", raw |-> <<>>]

SynYield(st) == [st EXCEPT !.raw = Append(@, [t |-> st.t, scl |-> st.scl, sda |-> st.sda])]

\* the initial conditions with the idle time before the first start left out
SynthInitialNoIdle(st, idle_s) ==
    [SynYield(st) EXCEPT !.stage = "start"]

\* yield ((t, scl), (t, sda)) # initial conditions; t += idle_start
SynthInitial(st, idle_s) ==
    [SynYield(st) EXCEPT !.t = @ + idle_s, !.stage = "start"]

\* the start condition with scl falling a half period after sda
SynthStartHalfPeriod(st, q) ==
    LET s1 == SynYield([st EXCEPT !.sda = 0])
        s2 == SynYield([s1 EXCEPT !.t = @ + 2 * q, !.scl = 0])
    IN  [s2 EXCEPT !.t = @ + q, !.j = 1, !.stage = "bytes"]

\* start condition: sda falls while scl is high, then scl falls
SynthStart(st, q) ==
    LET s1 == SynYield([st EXCEPT !.sda = 0])
        s2 == SynYield([s1 EXCEPT !.t = @ + q, !.scl = 0])
    IN  [s2 EXCEPT !.t = @ + q, !.j = 1, !.stage = "bytes"]

\* one bit of a byte with scl high for a quarter period only
SynthBitShortHigh(st, b, q) ==
    LET s1 == SynYield([st EXCEPT !.sda = b])
        s2 == SynYield([s1 EXCEPT !.t = @ + q, !.scl = 1])
        s3 == SynYield([s2 EXCEPT !.t = @ + q, !.scl = 0])
    IN  [s3 EXCEPT !.t = @ + q]

\* one bit of a byte: sda is set, scl rises a quarter period later, falls a half
\* period after that, the next bit follows a quarter period later
SynthBit(st, b, q) ==
    LET s1 == SynYield([st EXCEPT !.sda = b])
        s2 == SynYield([s1 EXCEPT !.t = @ + q, !.scl = 1])
        s3 == SynYield([s2 EXCEPT !.t = @ + 2 * q, !.scl = 0])
    IN  [s3 EXCEPT !.t = @ + q]

RECURSIVE SynthBits(_, _, _)
SynthBits(st, bits, q) ==
    IF bits = <<>> THEN st
    ELSE SynthBits(SynthBit(st, Head(bits), q), Tail(bits), q)

\* the body of "for j, byte in enumerate(tfer.bytes())": the 8 bits, then ack_bits[j]
SynthByte(st, tfer, q) ==
    LET bits == Append(split_bits(TransferBytes(tfer)[st.j], 8), TransferAckBits(tfer)[st.j])
    IN  [SynthBits(st, bits, q) EXCEPT !.j = @ + 1]

\* the end of a transfer with scl left low before the next start
SynthTransferEndSclLow(st, num_transfers, q) ==
    LET s1 == SynYield([st EXCEPT !.sda = 1])
    IN  IF st.i < num_transfers
        THEN [s1 EXCEPT !.t = @ + 2 * q, !.i = @ + 1, !.stage = "start"]
        ELSE [st EXCEPT !.i = @ + 1, !.stage = "start"]

\* the end of a transfer with sda and scl raised in one step
SynthTransferEndTogether(st, num_transfers, q) ==
    LET s1 == SynYield([st EXCEPT !.sda = 1, !.scl = 1])
    IN  IF st.i < num_transfers
        THEN [s1 EXCEPT !.t = @ + 2 * q, !.i = @ + 1, !.stage = "start"]
        ELSE [st EXCEPT !.i = @ + 1, !.stage = "start"]

\* the end of the body of "for i, tfer in enumerate(transfers)": prepare a
\* repeated start (sda rises, then scl rises) unless this is the last transfer
SynthTransferEnd(st, num_transfers, q) ==
    LET s1 == SynYield([st EXCEPT !.sda = 1])
        s2 == SynYield([s1 EXCEPT !.t = @ + q, !.scl = 1])
    IN  IF st.i < num_transfers
        THEN [s2 EXCEPT !.t = @ + q, !.i = @ + 1, !.stage = "start"]
        ELSE [st EXCEPT !.i = @ + 1, !.stage = "start"]

\* stop condition after the last transfer, and the final state
SynthStop(st, q, idle_e) ==
    LET s1 == SynYield([st EXCEPT !.sda = 0])
        s2 == SynYield([s1 EXCEPT !.t = @ + q, !.scl = 1])
        s3 == SynYield([s2 EXCEPT !.t = @ + q, !.sda = 1])
    IN  [SynYield([s3 EXCEPT !.t = @ + q + idle_e]) EXCEPT !.stage = "end"]

\* ripyl.sigproc.remove_excess_edges: drops every sample whose level repeats the
\* previous one, keeping the closing sample of the stream
remove_excess_edges(es) ==
    LET n == Len(es)
        Kept(k) == k = 1 \/ k = n \/ es[k][2] # es[k - 1][2]
        ks == SelectSeq([k \in 1..n |-> k], Kept)
    IN  [j \in 1..Len(ks) |-> es[ks[j]]]

\* i2c_synth: unzip the yielded pairs into the scl and sda streams and clean each
i2c_synth(raw) ==
    [scl |-> remove_excess_edges([k \in 1..Len(raw) |-> <<raw[k].t, raw[k].scl>>]),
     sda |-> remove_excess_edges([k \in 1..Len(raw) |-> <<raw[k].t, raw[k].sda>>])]

-----------------------------------------------------------------------------
(* ripyl.decode.MultiEdgeSequence over the channels scl and sda.  Each     *)
(* channel's cursor is the index of its current element; a channel is at   *)
(* its end once its current element is the last one of its stream.         *)

Channels == {"scl", "sda"}

EsAtEndChan(e, d, ch) == d.idx[ch] >= Len(e[ch])

EsAtEnd(e, d) == \A ch \in Channels : EsAtEndChan(e, d, ch)

EsCurState(e, d, ch) == e[ch][d.idx[ch]][2]

EsNextTime(e, d, ch) == e[ch][d.idx[ch] + 1][1]

\* the channel holding the nearest edge; on equal timestamps the channel that
\* comes first in the build's iteration order
EsNextChan(e, d, order) ==
    LET avail == {ch \in Channels : ~EsAtEndChan(e, d, ch)}
        other == CHOOSE ch \in Channels : ch # order
    IN  IF avail = {order} THEN order
        ELSE IF avail = {other} THEN other
        ELSE IF EsNextTime(e, d, order) <= EsNextTime(e, d, other) THEN order
        ELSE other

\* both channels hold an edge at the same timestamp
EsTie(e, d) ==
    /\ \A ch \in Channels : ~EsAtEndChan(e, d, ch)
    /\ EsNextTime(e, d, "scl") = EsNextTime(e, d, "sda")

\* advance_to_edge(): returns the cursor moved onto that edge, cname set
EsAdvanceToEdge(e, d, order) ==
    LET ch == EsNextChan(e, d, order)
    IN  [d EXCEPT !.cur_time = EsNextTime(e, d, ch),
                  !.idx = [@ EXCEPT ![ch] = @ + 1],
                  !.cname = ch]

-----------------------------------------------------------------------------
(* i2c_decode: one pass of "while not es.at_end()".  d holds the locals of *)
(* the generator; each operator returns the locals after the pass and the  *)
(* records yielded in it: [d |-> ..., y |-> <<...>>].                      *)

\* the locals on entry to the loop
DecInit ==
    [idx |-> [scl |-> 1, sda |-> 1], cur_time |-> 0, cname |-> "none",
     state |-> S_IDLE, start_time |-> None, end_time |-> None, bits |-> <<>>,
     first_addr |-> NoRecord, prev_10b_addr |-> NoRecord]

\* the start condition with the state left at S_IDLE
DecStartKeepsIdle(d) ==
    [d |-> d, y |-> <<StreamEvent(d.cur_time, "I2C start")>>]

\* S_IDLE: start condition met
DecStart(d) ==
    [d |-> [d EXCEPT !.state = S_ADDR],
     y |-> <<StreamEvent(d.cur_time, "I2C start")>>]

\* the stop condition with the state left as it was
DecStopKeepsState(d) ==
    [d |-> d, y |-> <<StreamEvent(d.cur_time, "I2C stop")>>]

\* stop condition met
DecStop(d) ==
    [d |-> [d EXCEPT !.state = S_IDLE],
     y |-> <<StreamEvent(d.cur_time, "I2C stop")>>]

\* the restart condition with the bit accumulator left as it was
DecRestartKeepsBits(d) ==
    [d |-> [d EXCEPT !.start_time = None, !.state = S_ADDR],
     y |-> <<StreamEvent(d.cur_time, "I2C restart")>>]

\* the restart condition after which the decoder expects data
DecRestartToData(d) ==
    [d |-> [d EXCEPT !.bits = <<>>, !.start_time = None, !.state = S_DATA],
     y |-> <<StreamEvent(d.cur_time, "I2C restart")>>]

\* the restart condition that yields the bits accumulated so far as a byte
DecRestartFlushesBits(d) ==
    [d |-> [d EXCEPT !.bits = <<>>, !.start_time = None, !.state = S_ADDR],
     y |-> IF d.bits = <<>>
           THEN <<StreamEvent(d.cur_time, "I2C restart")>>
           ELSE <<I2CByte(<<d.start_time, d.end_time>>, join_bits(d.bits), 0),
                  StreamEvent(d.cur_time, "I2C restart")>>]

\* the restart condition with the FSM state left as it was
DecRestartKeepsState(d) ==
    [d |-> [d EXCEPT !.bits = <<>>, !.start_time = None],
     y |-> <<StreamEvent(d.cur_time, "I2C restart")>>]

\* restart condition met
DecRestart(d) ==
    [d |-> [d EXCEPT !.bits = <<>>, !.start_time = None, !.state = S_ADDR],
     y |-> <<StreamEvent(d.cur_time, "I2C restart")>>]

\* the 10-bit addressed read resolved without the check of the upper bits
DecAddr10ReadNoCheck(d, word, ack_bit) ==
    LET r_wn == word % 2
        addr_10b == IF d.prev_10b_addr # NoRecord THEN d.prev_10b_addr.data
                    ELSE InvalidAddr
        nb == I2CByte(<<d.start_time, d.end_time>>, word, ack_bit)
        na == I2CAddress(<<d.start_time, d.end_time>>, addr_10b, r_wn)
    IN  [d |-> [d EXCEPT !.bits = <<>>, !.start_time = None, !.state = S_DATA],
         y |-> <<AppendSub(na, nb)>>]

\* the 10-bit addressed read that forgets the address it was resolved from
DecAddr10ReadClearsCache(d, word, ack_bit) ==
    LET addr == word \div 2
        r_wn == word % 2
        ub == addr % 4
        prev_ub == (d.prev_10b_addr.data \div 256) % 4
        addr_10b == IF d.prev_10b_addr # NoRecord
                    THEN (IF ub # prev_ub THEN InvalidAddr ELSE d.prev_10b_addr.data)
                    ELSE InvalidAddr
        nb == I2CByte(<<d.start_time, d.end_time>>, word, ack_bit)
        na == I2CAddress(<<d.start_time, d.end_time>>, addr_10b, r_wn)
    IN  [d |-> [d EXCEPT !.prev_10b_addr = NoRecord, !.bits = <<>>,
                         !.start_time = None, !.state = S_DATA],
         y |-> <<AppendSub(na, nb)>>]

\* S_ADDR, addr > 0x77, r_wn = 1: 10-bit addressed read, resolved from prev_10b_addr
DecAddr10Read(d, word, ack_bit) ==
    LET addr == word \div 2
        r_wn == word % 2
        ub == addr % 4
        prev_ub == (d.prev_10b_addr.data \div 256) % 4
        addr_10b == IF d.prev_10b_addr # NoRecord
                    THEN (IF ub # prev_ub THEN InvalidAddr ELSE d.prev_10b_addr.data)
                    ELSE InvalidAddr
        nb == I2CByte(<<d.start_time, d.end_time>>, word, ack_bit)
        na == I2CAddress(<<d.start_time, d.end_time>>, addr_10b, r_wn)
    IN  [d |-> [d EXCEPT !.bits = <<>>, !.start_time = None, !.state = S_DATA],
         y |-> <<AppendSub(na, nb)>>]

\* the first byte of a 10-bit addressed write kept with the accumulator left full
DecAddr10FirstKeepsBits(d, word, ack_bit) ==
    [d |-> [d EXCEPT !.first_addr = I2CByte(<<d.start_time, d.end_time>>, word, ack_bit),
                     !.state = S_ADDR_10B],
     y |-> <<>>]

\* S_ADDR, addr > 0x77, r_wn = 0: first byte of a 10-bit addressed write
DecAddr10First(d, word, ack_bit) ==
    [d |-> [d EXCEPT !.first_addr = I2CByte(<<d.start_time, d.end_time>>, word, ack_bit),
                     !.bits = <<>>, !.state = S_ADDR_10B],
     y |-> <<>>]

\* the 7-bit address taken from the whole byte, the r_wn bit not shifted out
DecAddr7NoShift(d, word, ack_bit) ==
    LET r_wn == word % 2
        nb == I2CByte(<<d.start_time, d.end_time>>, word, ack_bit)
        na == I2CAddress(<<d.start_time, d.end_time>>, word, r_wn)
    IN  [d |-> [d EXCEPT !.bits = <<>>, !.start_time = None, !.state = S_DATA],
         y |-> <<AppendSub(na, nb)>>]

\* the 7-bit address that clears the most recent 10-bit address
DecAddr7ClearsCache(d, word, ack_bit) ==
    LET addr == word \div 2
        r_wn == word % 2
        nb == I2CByte(<<d.start_time, d.end_time>>, word, ack_bit)
        na == I2CAddress(<<d.start_time, d.end_time>>, addr, r_wn)
    IN  [d |-> [d EXCEPT !.prev_10b_addr = NoRecord, !.bits = <<>>,
                         !.start_time = None, !.state = S_DATA],
         y |-> <<AppendSub(na, nb)>>]

\* S_ADDR, addr <= 0x77: 7-bit address
DecAddr7(d, word, ack_bit) ==
    LET addr == word \div 2
        r_wn == word % 2
        nb == I2CByte(<<d.start_time, d.end_time>>, word, ack_bit)
        na == I2CAddress(<<d.start_time, d.end_time>>, addr, r_wn)
    IN  [d |-> [d EXCEPT !.bits = <<>>, !.start_time = None, !.state = S_DATA],
         y |-> <<AppendSub(na, nb)>>]

\* the second byte of a 10-bit address decoded without keeping the address
DecAddr10SecondNoCache(d, word, ack_bit) ==
    LET addr == ((d.first_addr.data \div 2) % 4) * 256 + word
        r_wn == d.first_addr.data % 2
        ab2 == I2CByte(<<d.start_time, d.end_time>>, word, ack_bit)
        na == AppendSub(AppendSub(
                  I2CAddress(<<d.first_addr.start_time, d.end_time>>, addr, r_wn),
                  d.first_addr), ab2)
    IN  [d |-> [d EXCEPT !.bits = <<>>, !.start_time = None, !.state = S_DATA],
         y |-> <<na>>]

\* the second byte of a 10-bit address with the Address record starting where the
\* first byte ends
DecAddr10SecondLateStart(d, word, ack_bit) ==
    LET addr == ((d.first_addr.data \div 2) % 4) * 256 + word
        r_wn == d.first_addr.data % 2
        ab2 == I2CByte(<<d.start_time, d.end_time>>, word, ack_bit)
        na == AppendSub(AppendSub(
                  I2CAddress(<<d.first_addr.end_time, d.end_time>>, addr, r_wn),
                  d.first_addr), ab2)
    IN  [d |-> [d EXCEPT !.prev_10b_addr = na, !.bits = <<>>, !.start_time = None,
                         !.state = S_DATA],
         y |-> <<na>>]

\* the second byte of a 10-bit address with the two Byte children in reverse order
DecAddr10SecondSwapped(d, word, ack_bit) ==
    LET addr == ((d.first_addr.data \div 2) % 4) * 256 + word
        r_wn == d.first_addr.data % 2
        ab2 == I2CByte(<<d.start_time, d.end_time>>, word, ack_bit)
        na == AppendSub(AppendSub(
                  I2CAddress(<<d.first_addr.start_time, d.end_time>>, addr, r_wn),
                  ab2), d.first_addr)
    IN  [d |-> [d EXCEPT !.prev_10b_addr = na, !.bits = <<>>, !.start_time = None,
                         !.state = S_DATA],
         y |-> <<na>>]

\* S_ADDR_10B: second byte of a 10-bit address
DecAddr10Second(d, word, ack_bit) ==
    LET addr == ((d.first_addr.data \div 2) % 4) * 256 + word
        r_wn == d.first_addr.data % 2
        ab2 == I2CByte(<<d.start_time, d.end_time>>, word, ack_bit)
        na == AppendSub(AppendSub(
                  I2CAddress(<<d.first_addr.start_time, d.end_time>>, addr, r_wn),
                  d.first_addr), ab2)
    IN  [d |-> [d EXCEPT !.prev_10b_addr = na, !.bits = <<>>, !.start_time = None,
                         !.state = S_DATA],
         y |-> <<na>>]

\* the data byte built from all nine bits, the ack bit not split off
DecDataNineBits(d, word, ack_bit) ==
    [d |-> [d EXCEPT !.bits = <<>>, !.start_time = None],
     y |-> <<I2CByte(<<d.start_time, d.end_time>>, word * 2 + ack_bit, ack_bit)>>]

\* the data byte after which the decoder expects an address
DecDataLeavesData(d, word, ack_bit) ==
    [d |-> [d EXCEPT !.bits = <<>>, !.start_time = None, !.state = S_ADDR],
     y |-> <<I2CByte(<<d.start_time, d.end_time>>, word, ack_bit)>>]

\* S_DATA: a data byte
DecData(d, word, ack_bit) ==
    [d |-> [d EXCEPT !.bits = <<>>, !.start_time = None],
     y |-> <<I2CByte(<<d.start_time, d.end_time>>, word, ack_bit)>>]

\* the dispatch with 0x77 taken for the first bits of a 10-bit address
DecWordBoundaryLow(d) ==
    LET word == join_bits(SubSeq(d.bits, 1, 8))
        ack_bit == d.bits[9]
        addr == word \div 2
        r_wn == word % 2
    IN  IF d.state = S_ADDR
        THEN IF addr > MaxAddr7 - 1
             THEN (IF r_wn # 0 THEN DecAddr10Read(d, word, ack_bit)
                   ELSE DecAddr10First(d, word, ack_bit))
             ELSE DecAddr7(d, word, ack_bit)
        ELSE IF d.state = S_ADDR_10B THEN DecAddr10Second(d, word, ack_bit)
        ELSE DecData(d, word, ack_bit)

\* len(bits) == 9: dispatch on the state
DecWord(d) ==
    LET word == join_bits(SubSeq(d.bits, 1, 8))
        ack_bit == d.bits[9]
        addr == word \div 2
        r_wn == word % 2
    IN  IF d.state = S_ADDR
        THEN IF addr > MaxAddr7
             THEN (IF r_wn # 0 THEN DecAddr10Read(d, word, ack_bit)
                   ELSE DecAddr10First(d, word, ack_bit))
             ELSE DecAddr7(d, word, ack_bit)
        ELSE IF d.state = S_ADDR_10B THEN DecAddr10Second(d, word, ack_bit)
        ELSE DecData(d, word, ack_bit)

\* the rising edge of SCL with the complement of the sda level taken as the bit
DecBitInverted(d, sda_level) ==
    LET d1 == [d EXCEPT !.start_time = IF @ = None THEN d.cur_time ELSE @,
                        !.bits = Append(@, 1 - sda_level),
                        !.end_time = d.cur_time]
    IN  IF Len(d1.bits) = 9 THEN DecWord(d1) ELSE [d |-> d1, y |-> <<>>]

\* rising edge of SCL: accumulate the bit
DecBit(d, sda_level) ==
    LET d1 == [d EXCEPT !.start_time = IF @ = None THEN d.cur_time ELSE @,
                        !.bits = Append(@, sda_level),
                        !.end_time = d.cur_time]
    IN  IF Len(d1.bits) = 9 THEN DecWord(d1) ELSE [d |-> d1, y |-> <<>>]

\* the loop body: advance to the next edge and act on it
DecodePass(e, d0, order) ==
    LET d == EsAdvanceToEdge(e, d0, order)
        sda_edge == d.cname = "sda" /\ ~EsAtEndChan(e, d, "sda")
        scl_edge == d.cname = "scl" /\ ~EsAtEndChan(e, d, "scl")
        sda_level == EsCurState(e, d, "sda")
        scl_level == EsCurState(e, d, "scl")
    IN  IF d.state = S_IDLE
        THEN LET d1 == [d EXCEPT !.bits = <<>>]
             IN  IF sda_edge /\ sda_level = 0 /\ scl_level = 1
                 THEN DecStart(d1)
                 ELSE [d |-> d1, y |-> <<>>]
        ELSE IF sda_edge /\ sda_level = 1 /\ scl_level = 1 THEN DecStop(d)
        ELSE IF sda_edge /\ sda_level = 0 /\ scl_level = 1 THEN DecRestart(d)
        ELSE IF scl_edge /\ scl_level = 1 THEN DecBit(d, sda_level)
        ELSE [d |-> d, y |-> <<>>]

-----------------------------------------------------------------------------
(* reconstruct_i2c_transfers: r holds the locals of the generator and pos, *)
(* the index of the next record of the input.                              *)

ReconInit == [state |-> R_S_ADDR, cur_addr |-> NoRecord, cur_data |-> <<>>, pos |-> 1]

\* I2CTransfer(cur_addr.r_wn, cur_addr.address, [b.data for b in cur_data])
ReconTransfer(r) ==
    I2CTransfer(r.cur_addr.r_wn, r.cur_addr.data,
                [k \in 1..Len(r.cur_data) |-> r.cur_data[k].data])

\* the pass with cur_data carried over into the next transfer
ReconPassKeepsData(r, rec) ==
    LET r1 == [r EXCEPT !.pos = @ + 1]
    IN  IF r.state = R_S_ADDR
        THEN IF rec.kind = "I2C address"
             THEN [r |-> [r1 EXCEPT !.cur_addr = rec, !.state = R_S_DATA], y |-> <<>>]
             ELSE [r |-> r1, y |-> <<>>]
        ELSE IF rec.kind = "I2C byte"
             THEN [r |-> [r1 EXCEPT !.cur_data = Append(@, rec)], y |-> <<>>]
        ELSE IF rec.kind = "I2C address"
             THEN [r |-> [r1 EXCEPT !.cur_addr = rec], y |-> <<ReconTransfer(r)>>]
        ELSE [r |-> r1, y |-> <<>>]

\* the pass taking every record that is no Address for data while in S_DATA
ReconPassAnyRecord(r, rec) ==
    LET r1 == [r EXCEPT !.pos = @ + 1]
    IN  IF r.state = R_S_ADDR
        THEN IF rec.kind = "I2C address"
             THEN [r |-> [r1 EXCEPT !.cur_addr = rec, !.state = R_S_DATA], y |-> <<>>]
             ELSE [r |-> r1, y |-> <<>>]
        ELSE IF rec.kind = "I2C address"
             THEN [r |-> [r1 EXCEPT !.cur_addr = rec, !.cur_data = <<>>],
                   y |-> <<ReconTransfer(r)>>]
        ELSE [r |-> [r1 EXCEPT !.cur_data = Append(@, rec)], y |-> <<>>]

\* the pass in which a stop event closes the current transfer
ReconPassStopCloses(r, rec) ==
    LET r1 == [r EXCEPT !.pos = @ + 1]
    IN  IF r.state = R_S_ADDR
        THEN IF rec.kind = "I2C address"
             THEN [r |-> [r1 EXCEPT !.cur_addr = rec, !.state = R_S_DATA], y |-> <<>>]
             ELSE [r |-> r1, y |-> <<>>]
        ELSE IF rec.kind = "I2C byte"
             THEN [r |-> [r1 EXCEPT !.cur_data = Append(@, rec)], y |-> <<>>]
        ELSE IF rec.kind = "I2C address"
             THEN [r |-> [r1 EXCEPT !.cur_addr = rec, !.cur_data = <<>>],
                   y |-> <<ReconTransfer(r)>>]
        ELSE IF rec.kind = "I2C stop"
             THEN [r |-> [r1 EXCEPT !.cur_addr = NoRecord, !.cur_data = <<>>,
                                    !.state = R_S_ADDR],
                   y |-> <<ReconTransfer(r)>>]
        ELSE [r |-> r1, y |-> <<>>]

\* one pass of "for r in records": [r |-> locals, y |-> yielded transfers]
ReconPass(r, rec) ==
    LET r1 == [r EXCEPT !.pos = @ + 1]
    IN  IF r.state = R_S_ADDR
        THEN IF rec.kind = "I2C address"
             THEN [r |-> [r1 EXCEPT !.cur_addr = rec, !.state = R_S_DATA], y |-> <<>>]
             ELSE [r |-> r1, y |-> <<>>]
        ELSE IF rec.kind = "I2C byte"
             THEN [r |-> [r1 EXCEPT !.cur_data = Append(@, rec)], y |-> <<>>]
        ELSE IF rec.kind = "I2C address"
             THEN [r |-> [r1 EXCEPT !.cur_addr = rec, !.cur_data = <<>>],
                   y |-> <<ReconTransfer(r)>>]
        ELSE [r |-> r1, y |-> <<>>]

\* the generator returning without the last transfer
ReconFlushNothing(r) == <<>>

\* after the loop: reconstruct the last transfer
ReconFlush(r) == IF r.cur_addr # NoRecord THEN <<ReconTransfer(r)>> ELSE <<>>

-----------------------------------------------------------------------------
(* The inputs of the model *)

\* 7-bit addresses 0x50, 0x77 and 10-bit addresses 0x78, 0x2F0, 0x2F1, 0x3FF
Addresses == {80, 119, 120, 752, 753, 1023}

\* data of a transfer: the first bytes of 0x01 0x02 0xAA 0xFF 0x00 0x55 0x80
DataPattern == <<1, 2, 170, 255, 0, 85, 128>>

DataChoices == {SubSeq(DataPattern, 1, n) : n \in 0..MaxData}

TransferChoices ==
    {I2CTransfer(rw, a, dt) : rw \in {I2C_Write, I2C_Read}, a \in Addresses, dt \in DataChoices}

TransferLists ==
    UNION {[1..n -> TransferChoices] : n \in 0..MaxTransfers}

\* <<quarter, idle_start, idle_end>> of a call: the clock period and the idle
\* times are varied one at a time
TimingChoices ==
    {<<q, 0, 0>> : q \in 1..MaxQuarter} \cup {<<1, i, i>> : i \in 0..MaxIdle}

\* the orders MultiEdgeSequence may serve a tie in, given what the run has shown
OrderChoices(s) ==
    IF chan_order # "unset" THEN {chan_order}
    ELSE IF EsTie(edges[s], dec[s]) THEN Channels
    ELSE {"scl"}

OrderAfter(s, order) ==
    IF chan_order = "unset" /\ EsTie(edges[s], dec[s]) THEN order ELSE chan_order

-----------------------------------------------------------------------------
(* Synthesize, decode, reconstruct: one decode session fed by i2c_synth    *)

Session == 1

Init ==
    /\ transfers \in TransferLists
    /\ \E tm \in TimingChoices :
          /\ quarter = tm[1]
          /\ idle_start = tm[2]
          /\ idle_end = tm[3]
    /\ chan_order = "unset"
    /\ syn = SynInit
    /\ edges = [s \in {Session} |-> [scl |-> <<>>, sda |-> <<>>]]
    /\ feed = [closed |-> TRUE, n |-> 0, t |-> 0]
    /\ dec = [s \in {Session} |-> DecInit]
    /\ out = [s \in {Session} |-> <<>>]
    /\ rc = ReconInit
    /\ tfers = <<>>
    /\ pc = [s \in {Session} |-> "synth"]
    /\ nstat = None

\* _i2c_synth: the initial conditions
SynBegin ==
    /\ pc[Session] = "synth" /\ syn.stage = "initial"
    /\ syn' = SynthInitial(syn, idle_start)
    /\ UNCHANGED <<transfers, quarter, idle_start, idle_end, chan_order, edges, feed, dec, out, rc, tfers, pc, nstat>>

\* _i2c_synth: the start condition of transfer i
SynStart ==
    /\ pc[Session] = "synth" /\ syn.stage = "start" /\ syn.i <= Len(transfers)
    /\ syn' = SynthStart(syn, quarter)
    /\ UNCHANGED <<transfers, quarter, idle_start, idle_end, chan_order, edges, feed, dec, out, rc, tfers, pc, nstat>>

\* _i2c_synth: byte j of transfer i
SynByte ==
    /\ pc[Session] = "synth" /\ syn.stage = "bytes"
    /\ syn.j <= Len(TransferBytes(transfers[syn.i]))
    /\ syn' = SynthByte(syn, transfers[syn.i], quarter)
    /\ UNCHANGED <<transfers, quarter, idle_start, idle_end, chan_order, edges, feed, dec, out, rc, tfers, pc, nstat>>

\* _i2c_synth: the bytes of transfer i are out
SynTransferEnd ==
    /\ pc[Session] = "synth" /\ syn.stage = "bytes"
    /\ syn.j > Len(TransferBytes(transfers[syn.i]))
    /\ syn' = SynthTransferEnd(syn, Len(transfers), quarter)
    /\ UNCHANGED <<transfers, quarter, idle_start, idle_end, chan_order, edges, feed, dec, out, rc, tfers, pc, nstat>>

\* _i2c_synth: the stop condition and the final state
SynStop ==
    /\ pc[Session] = "synth" /\ syn.stage = "start" /\ syn.i > Len(transfers)
    /\ syn' = SynthStop(syn, quarter, idle_end)
    /\ UNCHANGED <<transfers, quarter, idle_start, idle_end, chan_order, edges, feed, dec, out, rc, tfers, pc, nstat>>

\* i2c_synth returns the two cleaned edge streams, which i2c_decode is called with
SynReturn ==
    /\ pc[Session] = "synth" /\ syn.stage = "end"
    /\ edges' = [edges EXCEPT ![Session] = i2c_synth(syn.raw)]
    /\ syn' = [syn EXCEPT !.raw = <<>>, !.stage = "returned"]
    /\ pc' = [pc EXCEPT ![Session] = "decode"]
    /\ UNCHANGED <<transfers, quarter, idle_start, idle_end, chan_order, feed, dec, out, rc, tfers, nstat>>

\* the next edge and whether it is its channel's last element are known: the
\* streams are complete, or the channel holds an element beyond that edge
InputReady(s, order) ==
    \/ feed.closed
    \/ LET ch == EsNextChan(edges[s], dec[s], order)
       IN  dec[s].idx[ch] + 2 <= Len(edges[s][ch])

\* the pass with prev_10b_addr kept in one place for all sessions: the pass reads
\* the address any session has cached and writes its own to every session
DecodeSharedCache(s) ==
    /\ pc[s] = "decode"
    /\ ~EsAtEnd(edges[s], dec[s])
    /\ \E order \in OrderChoices(s) :
          /\ InputReady(s, order)
          /\ LET p == DecodePass(edges[s], dec[s], order)
             IN  /\ dec' = [t \in DOMAIN dec |->
                              IF t = s THEN p.d
                              ELSE [dec[t] EXCEPT !.prev_10b_addr = p.d.prev_10b_addr]]
                 /\ out' = [out EXCEPT ![s] = @ \o p.y]
                 /\ chan_order' = OrderAfter(s, order)
    /\ UNCHANGED <<transfers, quarter, idle_start, idle_end, syn, edges, feed, rc, tfers, pc, nstat>>

\* one pass of the loop of i2c_decode in session s
Decode(s) ==
    /\ pc[s] = "decode"
    /\ ~EsAtEnd(edges[s], dec[s])
    /\ \E order \in OrderChoices(s) :
          /\ InputReady(s, order)
          /\ LET p == DecodePass(edges[s], dec[s], order)
             IN  /\ dec' = [dec EXCEPT ![s] = p.d]
                 /\ out' = [out EXCEPT ![s] = @ \o p.y]
                 /\ chan_order' = OrderAfter(s, order)
    /\ UNCHANGED <<transfers, quarter, idle_start, idle_end, syn, edges, feed, rc, tfers, pc, nstat>>

\* the return of the generator with the bits accumulated so far flushed as a record
DecodeEndFlush(s) ==
    /\ pc[s] = "decode"
    /\ feed.closed
    /\ EsAtEnd(edges[s], dec[s])
    /\ pc' = [pc EXCEPT ![s] = "recon"]
    /\ out' = [out EXCEPT ![s] =
                  IF dec[s].state # S_IDLE /\ (dec[s].bits # <<>> \/ dec[s].state = S_ADDR_10B)
                  THEN Append(@, I2CByte(<<dec[s].start_time, dec[s].end_time>>,
                                         join_bits(dec[s].bits), None))
                  ELSE @]
    /\ UNCHANGED <<transfers, quarter, idle_start, idle_end, chan_order, syn, edges, feed, dec, rc, tfers, nstat>>

\* es.at_end(): the generator of session s returns
DecodeEnd(s) ==
    /\ pc[s] = "decode"
    /\ feed.closed
    /\ EsAtEnd(edges[s], dec[s])
    /\ pc' = [pc EXCEPT ![s] = "recon"]
    /\ UNCHANGED <<transfers, quarter, idle_start, idle_end, chan_order, syn, edges, feed, dec, out, rc, tfers, nstat>>

\* one pass of the loop of reconstruct_i2c_transfers over the decoded records
Reconstruct ==
    /\ pc[Session] = "recon"
    /\ rc.pos <= Len(out[Session])
    /\ LET p == ReconPass(rc, out[Session][rc.pos])
       IN  /\ rc' = p.r
           /\ tfers' = tfers \o p.y
    /\ UNCHANGED <<transfers, quarter, idle_start, idle_end, chan_order, syn, edges, feed, dec, out, pc, nstat>>

\* the records are exhausted: the last transfer is yielded and the generator returns
ReconstructEnd ==
    /\ pc[Session] = "recon"
    /\ rc.pos > Len(out[Session])
    /\ tfers' = tfers \o ReconFlush(rc)
    /\ pc' = [pc EXCEPT ![Session] = "done"]
    /\ UNCHANGED <<transfers, quarter, idle_start, idle_end, chan_order, syn, edges, feed, dec, out, rc, nstat>>

Next ==
    \/ SynBegin
    \/ SynStart
    \/ SynByte
    \/ SynTransferEnd
    \/ SynStop
    \/ SynReturn
    \/ Decode(Session)
    \/ DecodeEnd(Session)
    \/ Reconstruct
    \/ ReconstructEnd

Spec == Init /\ [][Next]_vars

-----------------------------------------------------------------------------
(* i2c_decode over arbitrary edge streams.  The caller's two streams are   *)
(* produced symbol by symbol: each symbol is a short run of bus levels,    *)
(* one <<scl, sda>> pair per tick, of which the streams keep the level     *)
(* changes.  Besides well-formed start, stop, bit and byte symbols there   *)
(* are single level changes of either line and of both lines at the same   *)
(* timestamp, so that the streams need not follow the protocol.            *)

MaxSymbols == 4

\* the byte symbols <<word, ack>>: 0xA0 (address 0x50, write), 0xF4 (10-bit header,
\* upper bits 2, write), 0xF0 with nack, 0xF5 (10-bit header, upper bits 2, read)
BusBytes == {<<160, 0>>, <<244, 0>>, <<240, 1>>, <<245, 0>>}

BusSymbols ==
    {<<"start", 0, 0>>, <<"stop", 0, 0>>, <<"scl", 0, 0>>, <<"sda", 0, 0>>,
     <<"both", 0, 0>>, <<"bit", 1, 0>>, <<"bytes", 244, 240>>}
    \cup {<<"byte", b[1], b[2]>> : b \in BusBytes}

\* the levels of the nine bit clocks of a byte and its ack bit
BusByteLevels(word, ack) ==
    LET bits == split_bits(word, 8) \o <<ack>>
    IN  [k \in 1..27 |-> <<IF (k - 1) % 3 = 1 THEN 1 ELSE 0, bits[((k - 1) \div 3) + 1]>>]

\* the levels <<scl, sda>> a symbol drives, tick by tick, from levels c0, d0;
\* <<"bytes", a, b>> is the two bytes a and b, both acknowledged
BusLevels(sym, c0, d0) ==
    CASE sym[1] = "start" -> << <<0, d0>>, <<0, 1>>, <<1, 1>>, <<1, 0>>, <<0, 0>> >>
      [] sym[1] = "stop"  -> << <<0, d0>>, <<0, 0>>, <<1, 0>>, <<1, 1>> >>
      [] sym[1] = "scl"   -> << <<1 - c0, d0>> >>
      [] sym[1] = "sda"   -> << <<c0, 1 - d0>> >>
      [] sym[1] = "both"  -> << <<1 - c0, 1 - d0>> >>
      [] sym[1] = "bit"   -> << <<0, d0>>, <<0, sym[2]>>, <<1, sym[2]>>, <<0, sym[2]>> >>
      [] sym[1] = "byte"  -> << <<0, d0>> >> \o BusByteLevels(sym[2], sym[3])
      [] sym[1] = "bytes" ->
            << <<0, d0>> >> \o BusByteLevels(sym[2], 0) \o BusByteLevels(sym[3], 0)

\* both lines idle high from time 0
BusIdle == [scl |-> << <<0, 1>> >>, sda |-> << <<0, 1>> >>]

\* the streams e with the level changes of symbol sym, driven from time t0, appended
BusExtend(e, t0, sym) ==
    LET c0 == e.scl[Len(e.scl)][2]
        d0 == e.sda[Len(e.sda)][2]
        lv == BusLevels(sym, c0, d0)
        Changes(i, l0) ==
            LET Keep(k) == lv[k][i] # (IF k = 1 THEN l0 ELSE lv[k - 1][i])
                ks == SelectSeq([k \in 1..Len(lv) |-> k], Keep)
            IN  [n \in 1..Len(ks) |-> <<t0 + ks[n] - 1, lv[ks[n]][i]>>]
    IN  [scl |-> e.scl \o Changes(1, c0), sda |-> e.sda \o Changes(2, d0)]

\* the number of ticks symbol sym takes
BusTicks(sym) == Len(BusLevels(sym, 0, 0))

\* the complete streams of a script of symbols
RECURSIVE BusRun(_, _, _, _)
BusRun(e, t0, script, k) ==
    IF k > Len(script) THEN e
    ELSE BusRun(BusExtend(e, t0, script[k]), t0 + BusTicks(script[k]), script, k + 1)

BusEdges(script) == BusRun(BusIdle, 1, script, 1)

\* the decoder cannot tell, for some iteration order, which edge is next or
\* whether it is its channel's last: it needs more of the streams
Starved(s) ==
    IF EsAtEnd(edges[s], dec[s]) THEN TRUE
    ELSE \E order \in OrderChoices(s) : ~InputReady(s, order)

InitBus ==
    /\ transfers = <<>>
    /\ quarter = 1
    /\ idle_start = 0
    /\ idle_end = 0
    /\ chan_order = "unset"
    /\ syn = [SynInit EXCEPT !.stage = "returned"]
    /\ edges = [s \in {Session} |-> BusIdle]
    /\ feed = [closed |-> FALSE, n |-> 0, t |-> 1]
    /\ dec = [s \in {Session} |-> DecInit]
    /\ out = [s \in {Session} |-> <<>>]
    /\ rc = ReconInit
    /\ tfers = <<>>
    /\ pc = [s \in {Session} |-> "decode"]
    /\ nstat = None

\* the caller's streams grow by the edges of one more symbol
Drive(sym) ==
    /\ pc[Session] = "decode"
    /\ ~feed.closed
    /\ feed.n < MaxSymbols
    /\ Starved(Session)
    /\ edges' = [edges EXCEPT ![Session] = BusExtend(@, feed.t, sym)]
    /\ feed' = [feed EXCEPT !.n = @ + 1, !.t = @ + BusTicks(sym)]
    /\ UNCHANGED <<transfers, quarter, idle_start, idle_end, chan_order, syn, dec, out, rc, tfers, pc, nstat>>

\* the streams e with a last sample at time t0 that repeats the level of each line
BusFinal(e, t0) ==
    [ch \in Channels |-> Append(e[ch], <<t0, e[ch][Len(e[ch])][2]>>)]

\* the caller's streams end here, after their last edge or after a final sample
\* of the state of the lines
Close(final) ==
    /\ pc[Session] = "decode"
    /\ ~feed.closed
    /\ Starved(Session)
    /\ edges' = [edges EXCEPT ![Session] = IF final THEN BusFinal(@, feed.t) ELSE @]
    /\ feed' = [feed EXCEPT !.closed = TRUE]
    /\ UNCHANGED <<transfers, quarter, idle_start, idle_end, chan_order, syn, dec, out, rc, tfers, pc, nstat>>

NextBus ==
    \/ \E sym \in BusSymbols : Drive(sym)
    \/ \E final \in BOOLEAN : Close(final)
    \/ Decode(Session)
    \/ DecodeEnd(Session)
    \/ Reconstruct
    \/ ReconstructEnd

SpecBus == InitBus /\ [][NextBus]_vars

-----------------------------------------------------------------------------
(* i2c_decode iterated to its return over a complete, finite pair of       *)
(* streams: every script of up to MaxEndSymbols symbols                    *)

MaxEndSymbols == 3

\* start, stop, a change of sda alone, one bit, the bytes 0xF4 and 0xA0
EndSymbols ==
    {<<"start", 0, 0>>, <<"stop", 0, 0>>, <<"sda", 0, 0>>, <<"bit", 1, 0>>,
     <<"byte", 244, 0>>, <<"byte", 160, 0>>}

EndScripts == UNION {[1..n -> EndSymbols] : n \in 0..MaxEndSymbols}

InitEnd ==
    /\ transfers = <<>>
    /\ quarter = 1
    /\ idle_start = 0
    /\ idle_end = 0
    /\ chan_order = "unset"
    /\ syn = [SynInit EXCEPT !.stage = "returned"]
    /\ \E script \in EndScripts : edges = [s \in {Session} |-> BusEdges(script)]
    /\ feed = [closed |-> TRUE, n |-> 0, t |-> 0]
    /\ dec = [s \in {Session} |-> DecInit]
    /\ out = [s \in {Session} |-> <<>>]
    /\ rc = ReconInit
    /\ tfers = <<>>
    /\ pc = [s \in {Session} |-> "decode"]
    /\ nstat = None

NextEnd ==
    \/ Decode(Session)
    \/ DecodeEnd(Session)

\* the consumer iterates the generator until it returns
SpecEnd ==
    /\ InitEnd /\ [][NextEnd]_vars
    /\ WF_vars(Decode(Session))
    /\ WF_vars(DecodeEnd(Session))

-----------------------------------------------------------------------------
(* reconstruct_i2c_transfers over arbitrary record sequences               *)

MaxRecords == 5

\* the records of the input: two events, two Address records with their Byte
\* children, two Byte records
RecordChoices ==
    {StreamEvent(1, "I2C start"),
     StreamEvent(9, "I2C stop"),
     StreamEvent(5, "I2C restart"),
     StreamRecord("unknown", StreamStatus_Ok, <<>>),
     AppendSub(I2CAddress(<<2, 3>>, 80, I2C_Write), I2CByte(<<2, 3>>, 160, 0)),
     AppendSub(I2CAddress(<<4, 5>>, 752, I2C_Read), I2CByte(<<4, 5>>, 245, 0)),
     I2CByte(<<6, 7>>, 1, 0),
     I2CByte(<<7, 8>>, 2, 1)}

RecordLists == UNION {[1..n -> RecordChoices] : n \in 0..MaxRecords}

InitRecon ==
    /\ transfers = <<>>
    /\ quarter = 1
    /\ idle_start = 0
    /\ idle_end = 0
    /\ chan_order = "unset"
    /\ syn = [SynInit EXCEPT !.stage = "returned"]
    /\ edges = [s \in {Session} |-> BusIdle]
    /\ feed = [closed |-> TRUE, n |-> 0, t |-> 0]
    /\ dec = [s \in {Session} |-> DecInit]
    /\ \E recs \in RecordLists : out = [s \in {Session} |-> recs]
    /\ rc = ReconInit
    /\ tfers = <<>>
    /\ pc = [s \in {Session} |-> "recon"]
    /\ nstat = None

\* reconstruct_i2c_transfers run to its return over the records recs from the
\* locals r: the transfers it yields
RECURSIVE ReconLoop(_, _)
ReconLoop(r, recs) ==
    IF r.pos > Len(recs) THEN ReconFlush(r)
    ELSE LET p == ReconPass(r, recs[r.pos])
         IN  p.y \o ReconLoop(p.r, recs)

reconstruct_i2c_transfers(recs) == ReconLoop(ReconInit, recs)

NextRecon ==
    \/ Reconstruct
    \/ ReconstructEnd

SpecRecon == InitRecon /\ [][NextRecon]_vars

-----------------------------------------------------------------------------
(* nested_status() called on a record tree                                 *)

MaxChildren == 2

StatusChoices == {StreamStatus_Ok, StreamStatus_Warning, StreamStatus_Error}

\* the records without subrecords, those with up to MaxChildren of them for
\* subrecords, and those with up to MaxChildren of the latter
StatusLeaves == {StreamRecord("unknown", st, <<>>) : st \in StatusChoices}

StatusInner ==
    {StreamRecord("unknown", st, ch) :
        st \in StatusChoices, ch \in UNION {[1..n -> StatusLeaves] : n \in 0..MaxChildren}}

StatusTrees ==
    {StreamRecord("unknown", st, ch) :
        st \in StatusChoices, ch \in UNION {[1..n -> StatusInner] : n \in 0..MaxChildren}}

InitStatus ==
    /\ transfers = <<>>
    /\ quarter = 1
    /\ idle_start = 0
    /\ idle_end = 0
    /\ chan_order = "unset"
    /\ syn = [SynInit EXCEPT !.stage = "returned"]
    /\ edges = [s \in {Session} |-> BusIdle]
    /\ feed = [closed |-> TRUE, n |-> 0, t |-> 0]
    /\ dec = [s \in {Session} |-> DecInit]
    /\ \E rec \in StatusTrees : out = [s \in {Session} |-> <<rec>>]
    /\ rc = ReconInit
    /\ tfers = <<>>
    /\ pc = [s \in {Session} |-> "status"]
    /\ nstat = None

\* rec.nested_status() on the record held
NestedStatus ==
    /\ pc[Session] = "status"
    /\ nstat' = nested_status(out[Session][1])
    /\ pc' = [pc EXCEPT ![Session] = "done"]
    /\ UNCHANGED <<transfers, quarter, idle_start, idle_end, chan_order, syn, edges, feed, dec, out, rc, tfers>>

NextStatus == NestedStatus

SpecStatus == InitStatus /\ [][NextStatus]_vars

-----------------------------------------------------------------------------
(* Two decode sessions over different inputs, their passes interleaved     *)

Sessions == {1, 2}

\* the inputs of the sessions: a 10-bit addressed write to 0x2F0, a 10-bit
\* addressed read with the same upper bits and no address written before it, a
\* 7-bit addressed write, and a 10-bit addressed write followed by a read
TwoScripts ==
    {<< <<"start", 0, 0>>, <<"byte", 244, 0>>, <<"byte", 240, 1>>, <<"byte", 160, 0>>,
        <<"stop", 0, 0>>, <<"sda", 0, 0>> >>,
     << <<"start", 0, 0>>, <<"byte", 245, 0>>, <<"byte", 240, 1>>, <<"stop", 0, 0>>,
        <<"sda", 0, 0>> >>,
     << <<"start", 0, 0>>, <<"byte", 160, 0>>, <<"byte", 245, 0>>, <<"stop", 0, 0>>,
        <<"sda", 0, 0>> >>,
     << <<"start", 0, 0>>, <<"byte", 244, 0>>, <<"byte", 240, 1>>, <<"start", 0, 0>>,
        <<"byte", 245, 0>>, <<"byte", 160, 0>>, <<"stop", 0, 0>>, <<"both", 0, 0>>,
        <<"both", 0, 0>> >>}

InitTwo ==
    /\ transfers = <<>>
    /\ quarter = 1
    /\ idle_start = 0
    /\ idle_end = 0
    /\ chan_order = "unset"
    /\ syn = [SynInit EXCEPT !.stage = "returned"]
    /\ \E a \in TwoScripts : \E b \in TwoScripts \ {a} :
          edges = [s \in Sessions |-> IF s = 1 THEN BusEdges(a) ELSE BusEdges(b)]
    /\ feed = [closed |-> TRUE, n |-> 0, t |-> 0]
    /\ dec = [s \in Sessions |-> DecInit]
    /\ out = [s \in Sessions |-> <<>>]
    /\ rc = ReconInit
    /\ tfers = <<>>
    /\ pc = [s \in Sessions |-> "decode"]
    /\ nstat = None

NextTwo ==
    \/ \E s \in Sessions : Decode(s)
    \/ \E s \in Sessions : DecodeEnd(s)

SpecTwo == InitTwo /\ [][NextTwo]_vars

\* i2c_decode run to completion on its own over the streams e: the records it yields
RECURSIVE DecodeRun(_, _, _, _)
DecodeRun(e, r, order, n) ==
    IF n = 0 THEN r
    ELSE IF n = 1
         THEN IF EsAtEnd(e, r.d) THEN r
              ELSE LET p == DecodePass(e, r.d, order)
                   IN  [d |-> p.d, y |-> r.y \o p.y]
    ELSE LET half == DecodeRun(e, r, order, n \div 2)
         IN  IF EsAtEnd(e, half.d) THEN half
             ELSE DecodeRun(e, half, order, n - (n \div 2))

i2c_decode(e, order) ==
    DecodeRun(e, [d |-> DecInit, y |-> <<>>], order, Len(e.scl) + Len(e.sda)).y

-----------------------------------------------------------------------------
(* Vocabulary of the properties *)

\* the i2c_decode generator of the session has returned
DecodeDone == pc[Session] \in {"recon", "done"}

IsAddr10(tfer) == tfer.address > MaxAddr7

\* bitwise or of two naturals
RECURSIVE BitOr(_, _)
BitOr(a, b) ==
    IF a = 0 THEN b
    ELSE IF b = 0 THEN a
    ELSE 2 * BitOr(a \div 2, b \div 2) + (IF a % 2 = 1 \/ b % 2 = 1 THEN 1 ELSE 0)

\* the positions of the Address records of a record sequence, in order
AddrPositions(o) ==
    LET IsAddrAt(k) == o[k].kind = "I2C address"
    IN  SelectSeq([k \in 1..Len(o) |-> k], IsAddrAt)

\* the top-level Byte records between the k-th Address record and the next one
GroupBytes(o, k) ==
    LET ap == AddrPositions(o)
        lo == ap[k]
        hi == IF k < Len(ap) THEN ap[k + 1] ELSE Len(o) + 1
        IsByteAt(n) == o[n].kind = "I2C byte"
        ks == SelectSeq([n \in 1..(hi - lo - 1) |-> lo + n], IsByteAt)
    IN  [j \in 1..Len(ks) |-> o[ks[j]]]

\* the wire bytes of the k-th Address-delimited run: the Byte children of the
\* Address record, then the Byte records that follow it
GroupWire(o, k) == o[AddrPositions(o)[k]].subrecords \o GroupBytes(o, k)

DataOf(recs) == [j \in 1..Len(recs) |-> recs[j].data]

AcksOf(recs) == [j \in 1..Len(recs) |-> recs[j].ack_bit]

\* every Byte record of a record sequence, children of Address records included
AllBytes(o) ==
    {o[k] : k \in {n \in 1..Len(o) : o[n].kind = "I2C byte"}}
    \cup UNION {{o[k].subrecords[j] : j \in 1..Len(o[k].subrecords)} : k \in 1..Len(o)}

\* the number of rising edges of an edge stream with a timestamp in [a, b]
RisingEdges(es, a, b) ==
    Cardinality({k \in 2..Len(es) : /\ es[k][2] = 1 /\ es[k - 1][2] = 0
                                    /\ a <= es[k][1] /\ es[k][1] <= b})

\* the 10-bit read at position k of the list follows a 10-bit write to the same
\* address with no other 10-bit write in between
ResolvableAt(tf, k) ==
    \E j \in 1..(k - 1) :
        /\ IsAddr10(tf[j]) /\ tf[j].r_wn = I2C_Write
        /\ tf[j].address = tf[k].address
        /\ \A m \in (j + 1)..(k - 1) : ~(IsAddr10(tf[m]) /\ tf[m].r_wn = I2C_Write)

Resolvable(tf) ==
    \A k \in 1..Len(tf) : (IsAddr10(tf[k]) /\ tf[k].r_wn = I2C_Read) => ResolvableAt(tf, k)

\* the reconstructed list reproduces address, r_wn and data of every transfer
RoundTripOk ==
    /\ Len(tfers) = Len(transfers)
    /\ \A k \in 1..Len(transfers) :
          /\ tfers[k].address = transfers[k].address
          /\ tfers[k].r_wn = transfers[k].r_wn
          /\ tfers[k].data = transfers[k].data

-----------------------------------------------------------------------------
(* C1: round trip *)

\* C1 as stated: for every transfer list, reconstruct(decode(synth(transfers)))
\* reproduces address, r_wn and data of every transfer
C1_RoundTripEveryList == pc[Session] = "done" => RoundTripOk

\* C1, amended: the round trip reproduces every transfer exactly when every 10-bit
\* read of the list follows a 10-bit write to the same address with no other 10-bit
\* write in between; a 10-bit read without one comes back with another address
C1_RoundTrip == pc[Session] = "done" => (RoundTripOk <=> Resolvable(transfers))

C1_Witness ==
    /\ pc[Session] = "done"
    /\ Len(transfers) = 2
    /\ IsAddr10(transfers[2]) /\ transfers[2].r_wn = I2C_Read
    /\ Len(transfers[2].data) = 2
    /\ Resolvable(transfers)
    /\ RoundTripOk

-----------------------------------------------------------------------------
(* C2: the records of a single 7-bit write *)

\* C2: decoding the waveform of a single write to a 7-bit address a with data
\* d1..dN yields exactly: Start, Address(a, Write) with one Byte child, N Byte
\* records d1..dN with ack_bit 0, Stop
C2_SingleWrite ==
    (/\ DecodeDone
     /\ Len(transfers) = 1
     /\ ~IsAddr10(transfers[1]) /\ transfers[1].r_wn = I2C_Write)
    => LET o == out[Session]
           tf == transfers[1]
           n == Len(tf.data)
       IN  /\ Len(o) = n + 3
           /\ o[1].kind = "I2C start"
           /\ o[2].kind = "I2C address" /\ o[2].data = tf.address /\ o[2].r_wn = I2C_Write
           /\ Len(o[2].subrecords) = 1 /\ o[2].subrecords[1].kind = "I2C byte"
           /\ \A k \in 1..n : /\ o[2 + k].kind = "I2C byte"
                              /\ o[2 + k].data = tf.data[k]
                              /\ o[2 + k].ack_bit = 0
           /\ o[n + 3].kind = "I2C stop"

\* the spec's instance: a write of 0x01 0x02 to address 0x50
C2_Witness ==
    /\ DecodeDone
    /\ transfers = <<I2CTransfer(I2C_Write, 80, <<1, 2>>)>>
    /\ Len(out[Session]) = 5

-----------------------------------------------------------------------------
(* C3: 10-bit read continuity *)

\* C3: decoding the waveform of [Write(A, data1), Read(A, data2)], A a 10-bit
\* address, yields exactly two Address records: the first A, Write, two Byte
\* children; the second A, Read, one Byte child
C3_Read10Continuity ==
    (/\ DecodeDone
     /\ Len(transfers) = 2
     /\ IsAddr10(transfers[1]) /\ transfers[1].r_wn = I2C_Write
     /\ transfers[2].address = transfers[1].address /\ transfers[2].r_wn = I2C_Read)
    => LET o == out[Session]
           ap == AddrPositions(o)
       IN  /\ Len(ap) = 2
           /\ o[ap[1]].data = transfers[1].address /\ o[ap[1]].r_wn = I2C_Write
           /\ Len(o[ap[1]].subrecords) = 2
           /\ o[ap[2]].data = transfers[1].address /\ o[ap[2]].r_wn = I2C_Read
           /\ Len(o[ap[2]].subrecords) = 1

C3_Witness ==
    /\ DecodeDone
    /\ Len(transfers) = 2
    /\ transfers[1] = I2CTransfer(I2C_Write, 1023, <<1>>)
    /\ transfers[2] = I2CTransfer(I2C_Read, 1023, <<1, 2>>)
    /\ Len(AddrPositions(out[Session])) = 2
    /\ out[Session][AddrPositions(out[Session])[2]].data = 1023

-----------------------------------------------------------------------------
(* C4: the unresolvable 10-bit read *)

\* the pass of session s moves the cursor onto a rising edge of scl
SclRisePass(s) ==
    /\ pc[s] = "decode"
    /\ dec'[s].idx["scl"] = dec[s].idx["scl"] + 1
    /\ dec'[s].idx["scl"] < Len(edges[s]["scl"])
    /\ edges[s]["scl"][dec'[s].idx["scl"]][2] = 1

\* ... which completes, in state ADDR, the header of a 10-bit read that the
\* address cache does not resolve
C4_UnresolvableRead(s) ==
    LET word == join_bits(dec[s].bits)
        cached == dec[s].prev_10b_addr
    IN  /\ SclRisePass(s)
        /\ dec[s].state = S_ADDR /\ Len(dec[s].bits) = 8
        /\ word \div 2 > 119 /\ word % 2 = 1
        /\ (cached = NoRecord \/ (cached.data \div 256) % 4 # (word \div 2) % 4)

C4_EmitsInvalid(s) ==
    /\ Len(out'[s]) = Len(out[s]) + 1
    /\ SubSeq(out'[s], 1, Len(out[s])) = out[s]
    /\ LET r == out'[s][Len(out'[s])]
       IN  /\ r.kind = "I2C address" /\ r.data = 4095 /\ r.r_wn = 1
           /\ Len(r.subrecords) = 1
           /\ r.subrecords[1].kind = "I2C byte"
           /\ r.subrecords[1].data = join_bits(dec[s].bits)
    /\ dec'[s].state = S_DATA

\* the data bytes clocked after an unresolved 10-bit read are decoded as Byte records
C4_KeepsDecoding ==
    DecodeDone =>
        LET o == out[Session]
        IN  \A k \in 1..Len(transfers) :
                (/\ IsAddr10(transfers[k]) /\ transfers[k].r_wn = I2C_Read
                 /\ ~ResolvableAt(transfers, k)
                 /\ \A j \in 1..(k - 1) :
                        ~(IsAddr10(transfers[j]) /\ transfers[j].r_wn = I2C_Write
                          /\ (transfers[j].address \div 256) = (transfers[k].address \div 256)))
                => /\ Len(AddrPositions(o)) = Len(transfers)
                   /\ o[AddrPositions(o)[k]].data = 4095
                   /\ DataOf(GroupBytes(o, k)) = transfers[k].data

\* C4: in state ADDR, a completed byte with addr7 > 0x77 and r_wn = 1, when no
\* 10-bit address is cached or the cached one has other upper bits, emits an Address
\* record 0xFFF with r_wn = 1 and one Byte child and moves to DATA; the 9-bit groups
\* that follow are decoded as Byte records
C4_InvalidAddress ==
    /\ [][\A s \in DOMAIN dec : C4_UnresolvableRead(s) => C4_EmitsInvalid(s)]_vars
    /\ []C4_KeepsDecoding

\* an unresolved read behind a cached address with other upper bits, data following
C4_Witness ==
    LET o == out[Session]
    IN  /\ pc[Session] = "decode"
        /\ dec[Session].prev_10b_addr # NoRecord
        /\ \E i \in 1..(Len(o) - 1) :
              /\ o[i].kind = "I2C address" /\ o[i].data = 4095
              /\ o[i + 1].kind = "I2C byte"

-----------------------------------------------------------------------------
(* C5: the wire bytes of a transfer *)

\* bytes() as the claim gives it
C5_Bytes(tf) ==
    IF tf.address <= 119
    THEN <<BitOr(tf.address * 2, tf.r_wn)>> \o tf.data
    ELSE IF tf.r_wn = 0
    THEN <<BitOr(BitOr(120, tf.address \div 256) * 2, 0), tf.address % 256>> \o tf.data
    ELSE <<BitOr(BitOr(120, tf.address \div 256) * 2, 1)>> \o tf.data

\* C5: bytes() of a 10-bit write is the header ((0x78 | (A >> 8)) << 1) | 0, then
\* A & 0xFF, then the data (0xF4, 0xF0 for 0x2F0); of a 10-bit read the header with
\* bit 0 set, then the data; of a 7-bit transfer (A << 1) | r_wn, then the data; and
\* decoding a synthesized 10-bit write gives an Address record with exactly A
C5_WireBytes ==
    /\ \A k \in 1..Len(transfers) :
          /\ TransferBytes(transfers[k]) = C5_Bytes(transfers[k])
          /\ (transfers[k].address = 752 /\ transfers[k].r_wn = I2C_Write)
                => SubSeq(TransferBytes(transfers[k]), 1, 2) = <<244, 240>>
    /\ DecodeDone =>
          \A k \in 1..Len(transfers) :
              (IsAddr10(transfers[k]) /\ transfers[k].r_wn = I2C_Write)
              => LET o == out[Session]
                     na == o[AddrPositions(o)[k]]
                 IN  /\ Len(AddrPositions(o)) = Len(transfers)
                     /\ na.data = transfers[k].address
                     /\ na.r_wn = I2C_Write
                     /\ DataOf(na.subrecords) = SubSeq(C5_Bytes(transfers[k]), 1, 2)

\* the spec's instance: a write of one byte to 0x2F0, decoded
C5_Witness ==
    /\ DecodeDone
    /\ Len(transfers) = 1
    /\ transfers[1].address = 752 /\ transfers[1].r_wn = I2C_Write
    /\ Len(transfers[1].data) = 1
    /\ out[Session][2].data = 752

-----------------------------------------------------------------------------
(* C6: ack polarity *)

-----------------------------------------------------------------------------
(* C7: the last byte of a read is nacked on the wire *)

\* C7: in decode(synth(transfers)) the wire bytes of every read transfer carry ack
\* bit 0 except the last one, which carries 1; the wire bytes of every write
\* transfer all carry ack bit 0
C7_LastReadByteNacked ==
    DecodeDone =>
        LET o == out[Session]
        IN  /\ Len(AddrPositions(o)) = Len(transfers)
            /\ \A k \in 1..Len(transfers) :
                  LET acks == AcksOf(GroupWire(o, k))
                  IN  \A j \in 1..Len(acks) :
                          acks[j] = (IF transfers[k].r_wn = I2C_Read /\ j = Len(acks)
                                     THEN 1 ELSE 0)

-----------------------------------------------------------------------------
(* C8: byte framing *)

\* C8: for every Byte record of decode(synth(transfers)), the Byte children of the
\* Address records included, scl has exactly 9 rising edges with a timestamp in
\* [start_time, end_time]
C8_NineRisingEdges ==
    DecodeDone =>
        \A b \in AllBytes(out[Session]) :
            RisingEdges(edges[Session]["scl"], b.start_time, b.end_time) = 9

-----------------------------------------------------------------------------
(* C9 *)

IsEvent(rec) == rec.time # None

\* the time up to which a record reaches: an event's time, a segment's end_time
ReachesTo(rec) == IF IsEvent(rec) THEN rec.time ELSE rec.end_time

\* C9: over any pair of edge streams the records i2c_decode emits are in
\* non-decreasing timestamp order: the time of an emitted event, and the start_time
\* and the end_time of an emitted segment, are not earlier than the time of any
\* event and the end_time of any segment emitted before it.
C9_OutputOrdered ==
    \A s \in DOMAIN out : \A k \in 1..Len(out[s]) : \A j \in 1..(k - 1) :
        IF IsEvent(out[s][k])
        THEN ReachesTo(out[s][j]) <= out[s][k].time
        ELSE /\ ReachesTo(out[s][j]) <= out[s][k].start_time
             /\ ReachesTo(out[s][j]) <= out[s][k].end_time

-----------------------------------------------------------------------------
(* C10 *)

\* the iteration orders the build may have, as far as the run has shown
OrdersLeft == IF chan_order = "unset" THEN {"scl"} ELSE {chan_order}

\* C10: when two decode sessions over different inputs have their passes
\* interleaved, each session that has returned has emitted exactly the records
\* i2c_decode emits over its own streams when run alone; in particular a 10-bit
\* addressed read with no 10-bit address written before it in its own session is
\* decoded as the invalid address whatever address the other session has cached.
C10_SessionsIndependent ==
    \A s \in DOMAIN pc :
        pc[s] = "recon" =>
            /\ \E order \in OrdersLeft : out[s] = i2c_decode(edges[s], order)
            /\ \A k \in 1..Len(out[s]) :
                  (/\ out[s][k].kind = "I2C address"
                   /\ out[s][k].r_wn = I2C_Read
                   /\ out[s][k].data > MaxAddr7
                   /\ \A j \in 1..(k - 1) :
                         ~(out[s][j].kind = "I2C address" /\ Len(out[s][j].subrecords) = 2))
                  => out[s][k].data = InvalidAddr

\* both sessions have returned: one resolved and cached the 10-bit address 0x2F0,
\* the other decoded a 10-bit read header with the same upper bits as invalid
C10_Witness ==
    /\ DOMAIN pc = Sessions
    /\ \A s \in Sessions : pc[s] = "recon"
    /\ \E s \in Sessions :
          /\ dec[s].prev_10b_addr # NoRecord
          /\ dec[s].prev_10b_addr.data = 752
          /\ \E t \in Sessions \ {s} :
                /\ dec[t].prev_10b_addr = NoRecord
                /\ \E k \in 1..Len(out[t]) :
                      /\ out[t][k].kind = "I2C address"
                      /\ out[t][k].data = InvalidAddr
                      /\ out[t][k].subrecords[1].data = 245

-----------------------------------------------------------------------------
(* C11: termination and partial bytes *)

\* the generator of session s returns in this step
DecodeReturns(s) == pc[s] = "decode" /\ pc'[s] # "decode"

\* C11: over any finite pair of edge streams i2c_decode returns once the merged
\* cursor is exhausted, whatever state it is in; the bits of a byte still incomplete
\* then, or a pending first byte of a 10-bit address, get no record: the return
\* emits nothing.
C11_TerminatesDiscarding ==
    /\ <>(pc[Session] # "decode")
    /\ [][\A s \in DOMAIN pc :
             DecodeReturns(s) => /\ EsAtEnd(edges[s], dec[s])
                                 /\ out'[s] = out[s]]_vars

\* the generator has returned in state ADDR10 with bits of the second byte pending
C11_Witness ==
    /\ pc[Session] = "recon"
    /\ dec[Session].state = S_ADDR_10B
    /\ Len(dec[Session].bits) \in 1..8
    /\ dec[Session].first_addr.data = 244
    /\ \A k \in 1..Len(out[Session]) : out[Session][k].kind = "I2C start"

-----------------------------------------------------------------------------
(* C12: the grouping of the reconstructor *)

\* C12: for any record sequence reconstruct_i2c_transfers yields one I2CTransfer per
\* top-level Address record, in input order; the k-th has the address and r_wn of
\* the k-th Address record, and for data the values, in order, of the top-level
\* Byte records between the k-th Address record and the next one or the end of input
C12_ReconGrouping ==
    pc[Session] = "done" =>
        LET o == out[Session]
            ap == AddrPositions(o)
        IN  /\ Len(tfers) = Len(ap)
            /\ \A k \in 1..Len(ap) :
                  /\ tfers[k].address = o[ap[k]].data
                  /\ tfers[k].r_wn = o[ap[k]].r_wn
                  /\ tfers[k].data = DataOf(GroupBytes(o, k))

\* two transfers out of a sequence that starts with a Byte record and an event and
\* has an event inside a run
C12_Witness ==
    /\ pc[Session] = "done"
    /\ Len(out[Session]) = 5
    /\ out[Session][1].kind = "I2C byte"
    /\ out[Session][2].kind = "I2C address"
    /\ out[Session][3].kind = "I2C stop"
    /\ out[Session][4].kind = "I2C byte"
    /\ out[Session][5].kind = "I2C address"
    /\ Len(tfers) = 2
    /\ Len(tfers[1].data) = 1

-----------------------------------------------------------------------------
(* C13: the flush of the reconstructor *)

HasAddress(o) == \E k \in 1..Len(o) : o[k].kind = "I2C address"

\* C13: a transfer is yielded only in the pass that consumes the next Address record
\* or when the input ends, one at a time; when the input ends the open transfer is
\* yielded exactly once if an Address record was seen, and nothing is yielded if
\* none was
C13_ReconFlush ==
    /\ [][tfers' # tfers =>
            /\ Len(tfers') = Len(tfers) + 1
            /\ SubSeq(tfers', 1, Len(tfers)) = tfers
            /\ \/ /\ rc.pos <= Len(out[Session])
                  /\ out[Session][rc.pos].kind = "I2C address"
                  /\ rc'.pos = rc.pos + 1
               \/ /\ rc.pos > Len(out[Session])
                  /\ pc'[Session] = "done"]_vars
    /\ [][(pc[Session] = "recon" /\ pc'[Session] = "done") =>
            Len(tfers') = Len(tfers) + (IF HasAddress(out[Session]) THEN 1 ELSE 0)]_vars
    /\ [](pc[Session] = "done" => (tfers = <<>> <=> ~HasAddress(out[Session])))

\* the input ended on a Byte record of the second run: the open transfer was flushed
C13_Witness ==
    /\ pc[Session] = "done"
    /\ Len(out[Session]) = 4
    /\ out[Session][1].kind = "I2C address"
    /\ out[Session][3].kind = "I2C address"
    /\ out[Session][4].kind = "I2C byte"
    /\ Len(tfers) = 2
    /\ tfers[2].data = <<out[Session][4].data>>

-----------------------------------------------------------------------------
(* C14: nested_status *)

\* the statuses of a record and of all its descendants
RECURSIVE SubtreeStatuses(_)
SubtreeStatuses(rec) ==
    {rec.status} \cup UNION {SubtreeStatuses(rec.subrecords[k]) : k \in 1..Len(rec.subrecords)}

\* C14: nested_status() of a record is the maximum status over the record and every
\* record of its subtree, at any depth; for a record without subrecords it is the
\* record's own status; it is never lower than the record's own status
C14_NestedStatusMax ==
    nstat # None =>
        LET rec == out[Session][1]
            all == SubtreeStatuses(rec)
        IN  /\ nstat \in all
            /\ \A x \in all : x <= nstat
            /\ rec.subrecords = <<>> => nstat = rec.status
            /\ nstat >= rec.status

\* the highest status sits two levels down, under a record and a root of lower status
C14_Witness ==
    /\ nstat = StreamStatus_Error
    /\ LET rec == out[Session][1]
       IN  /\ rec.status = StreamStatus_Ok
           /\ Len(rec.subrecords) = 2
           /\ rec.subrecords[1].status = StreamStatus_Warning
           /\ rec.subrecords[2].status = StreamStatus_Ok
           /\ Len(rec.subrecords[2].subrecords) = 2
           /\ rec.subrecords[2].subrecords[1].status = StreamStatus_Error

-----------------------------------------------------------------------------
(* C15: the time bounds of the records *)

IsSegment(rec) == rec.kind \in {"I2C byte", "I2C address"}

\* C15: over any input edge streams every segment the decoder emits and every Byte
\* child of an Address record has start_time <= end_time, and the bounds of every
\* Byte child lie within the bounds of its parent Address record
C15_TimeBounds ==
    \A s \in DOMAIN out : \A k \in 1..Len(out[s]) :
        LET rec == out[s][k]
        IN  IsSegment(rec) =>
                /\ rec.start_time <= rec.end_time
                /\ \A j \in 1..Len(rec.subrecords) :
                      LET sub == rec.subrecords[j]
                      IN  /\ sub.start_time <= sub.end_time
                          /\ rec.start_time <= sub.start_time
                          /\ sub.end_time <= rec.end_time

\* a 10-bit Address record with two Byte children, decoded after a stop and a start
C15_Witness ==
    \E k \in 4..Len(out[Session]) :
        /\ out[Session][k].kind = "I2C address"
        /\ Len(out[Session][k].subrecords) = 2
        /\ out[Session][k].subrecords[1].end_time < out[Session][k].subrecords[2].end_time
        /\ out[Session][k - 1].kind = "I2C start"
        /\ out[Session][k - 2].kind = "I2C stop"

-----------------------------------------------------------------------------
(* C16: the shapes of the records *)

IsByteShape(rec) ==
    /\ rec.kind = "I2C byte"
    /\ rec.subrecords = <<>>
    /\ rec.data \in 0..255
    /\ rec.ack_bit \in {0, 1}

\* C16: every record i2c_decode emits is a start, restart or stop event, an
\* I2CAddress or an I2CByte; an I2CAddress has 1 or 2 I2CByte subrecords and a value
\* in 0..0x3FF or 0xFFF; a top-level I2CByte has no subrecords, a value in 0..255
\* and an ack_bit in {0, 1}
C16_RecordShapes ==
    \A s \in DOMAIN out : \A k \in 1..Len(out[s]) :
        LET rec == out[s][k]
        IN  \/ /\ rec.kind \in {"I2C start", "I2C restart", "I2C stop"}
               /\ IsEvent(rec)
               /\ rec.subrecords = <<>>
            \/ /\ rec.kind = "I2C address"
               /\ Len(rec.subrecords) \in {1, 2}
               /\ \A j \in 1..Len(rec.subrecords) : IsByteShape(rec.subrecords[j])
               /\ rec.data \in (0..1023) \cup {4095}
               /\ rec.r_wn \in {0, 1}
            \/ IsByteShape(rec)

\* a start, a 10-bit address, a data byte that is not acknowledged and a stop are out
C16_Witness ==
    LET o == out[Session]
    IN  /\ Len(o) = 4
        /\ o[1].kind = "I2C start"
        /\ o[2].kind = "I2C address" /\ Len(o[2].subrecords) = 2
        /\ o[3].kind = "I2C byte" /\ o[3].ack_bit = 1
        /\ o[4].kind = "I2C stop"

-----------------------------------------------------------------------------
(* C17: the bus conditions of a synthesized waveform *)

\* the level of a line at time t: that of its last element not later than t (the
\* times of a stream never decrease, so these elements are a prefix of it)
LevelAt(es, t) ==
    es[Cardinality({k \in 1..Len(es) : es[k][1] <= t})][2]

\* the indices of the sda elements that change sda to level lv while scl is high
SdaChangesSclHigh(e, lv) ==
    {k \in 2..Len(e.sda) : /\ e.sda[k][2] = lv
                           /\ e.sda[k - 1][2] # lv
                           /\ LevelAt(e.scl, e.sda[k][1]) = 1}

CountKind(o, kind) == Cardinality({k \in 1..Len(o) : o[k].kind = kind})

\* C17: the waveform synthesized for n >= 1 transfers holds n falls of sda while scl
\* is high, the start and the n-1 repeated starts, and one rise of sda while scl is
\* high, the stop, which comes after all of them; decoding it yields 1 Start, n-1
\* Restart and 1 Stop event, Start the first record and Stop the last
C17_BusConditions ==
    (DecodeDone /\ Len(transfers) >= 1) =>
        LET e == edges[Session]
            o == out[Session]
            n == Len(transfers)
            starts == SdaChangesSclHigh(e, 0)
            stops == SdaChangesSclHigh(e, 1)
        IN  /\ Cardinality(starts) = n
            /\ Cardinality(stops) = 1
            /\ \A k \in starts : \A j \in stops : k < j
            /\ CountKind(o, "I2C start") = 1
            /\ CountKind(o, "I2C restart") = n - 1
            /\ CountKind(o, "I2C stop") = 1
            /\ o[1].kind = "I2C start"
            /\ o[Len(o)].kind = "I2C stop"

\* two transfers, the first a read whose last bit leaves sda high: one restart
C17_Witness ==
    /\ DecodeDone
    /\ Len(transfers) = 2
    /\ transfers[1].r_wn = I2C_Read /\ ~IsAddr10(transfers[1])
    /\ CountKind(out[Session], "I2C restart") = 1
    /\ Cardinality(SdaChangesSclHigh(edges[Session], 0)) = 2

-----------------------------------------------------------------------------
(* C18: the boundary samples of a synthesized waveform *)

\* C18: the first element of each synthesized stream is the initial state at time 0
\* with level 1; the last element of each stream is the sample of the final state,
\* level 1 on both lines; the first fall of sda, the first start condition, is at
\* time idle_start
C18_BoundarySamples ==
    pc[Session] \in {"decode", "recon", "done"} =>
        LET e == edges[Session]
            falls == {k \in 2..Len(e.sda) : e.sda[k][2] = 0 /\ e.sda[k - 1][2] = 1}
            first == CHOOSE k \in falls : \A j \in falls : k <= j
        IN  /\ e.scl[1] = <<0, 1>>
            /\ e.sda[1] = <<0, 1>>
            /\ e.scl[Len(e.scl)][2] = 1
            /\ e.sda[Len(e.sda)][2] = 1
            /\ e.scl[Len(e.scl)][1] = e.sda[Len(e.sda)][1]
            /\ e.scl[Len(e.scl)][1] = syn.t
            /\ e.scl[Len(e.scl) - 1][2] = 1
            /\ e.sda[Len(e.sda) - 1][2] = 1
            /\ falls # {}
            /\ e.sda[first][1] = idle_start
            /\ LevelAt(e.scl, idle_start) = 1

\* a waveform with idle time before the first start and after the stop
C18_Witness ==
    /\ pc[Session] = "decode"
    /\ idle_start = 1 /\ idle_end = 1
    /\ Len(transfers) = 1
    /\ edges[Session].sda[2] = <<1, 0>>
    /\ Len(edges[Session].scl) > 18

-----------------------------------------------------------------------------
(* C19: the start time of a byte *)

\* the records yielded by the step from this state to the next
Yielded(s) == SubSeq(out'[s], Len(out[s]) + 1, Len(out'[s]))

\* the Byte a record was built around in the pass that yielded it: a top-level Byte
\* itself, the last Byte child of an Address
BuiltByte(rec) ==
    IF rec.kind = "I2C address" THEN rec.subrecords[Len(rec.subrecords)] ELSE rec

\* C19: the scl rising edge that supplies the first bit of a byte sets the start-time
\* marker to its own time, and every Byte record, top-level or child of an Address,
\* takes the marker as its start_time; after every pass that emits a Byte or an
\* Address, and after every Start and Restart transition, the marker is unset and
\* the bit accumulator is empty
C19_ByteStartTime ==
    [][\A s \in DOMAIN pc :
          (pc[s] = "decode" /\ pc'[s] = "decode" /\ dec'[s] # dec[s]) =>
              /\ (Len(dec[s].bits) = 0 /\ Len(dec'[s].bits) = 1)
                     => dec'[s].start_time = dec'[s].cur_time
              /\ \A k \in 1..Len(Yielded(s)) :
                    LET rec == Yielded(s)[k]
                    IN  /\ rec.kind \in {"I2C byte", "I2C address"}
                               => BuiltByte(rec).start_time = dec[s].start_time
                        /\ rec.kind \in {"I2C byte", "I2C address",
                                         "I2C start", "I2C restart"}
                               => /\ dec'[s].start_time = None
                                  /\ dec'[s].bits = <<>>]_vars

-----------------------------------------------------------------------------
(* C20: the passes in state IDLE *)

\* session s makes a pass of the decoding loop in state IDLE
IdlePass(s) == pc[s] = "decode" /\ dec[s].state = S_IDLE /\ dec'[s] # dec[s]

\* the pass advanced to an element of the sda stream that changes the level of sda
SdaEdge(s) ==
    /\ dec'[s].cname = "sda"
    /\ LET k == dec'[s].idx["sda"]
       IN  k > 1 /\ edges[s]["sda"][k][2] # edges[s]["sda"][k - 1][2]

\* the edge the pass advanced to is an sda edge after which sda = 0 while scl = 1
StartCondition(s) ==
    /\ SdaEdge(s)
    /\ EsCurState(edges[s], dec'[s], "sda") = 0
    /\ EsCurState(edges[s], dec'[s], "scl") = 1

\* the pass emits one 'I2C start' stamped with the cursor's time and moves to ADDR
EmitsStart(s) ==
    /\ Yielded(s) = <<StreamEvent(dec'[s].cur_time, "I2C start")>>
    /\ dec'[s].state = S_ADDR

\* the pass emits nothing and leaves the state IDLE and the address cache unchanged
IgnoresEdge(s) ==
    /\ Yielded(s) = <<>>
    /\ dec'[s].state = S_IDLE
    /\ dec'[s].prev_10b_addr = dec[s].prev_10b_addr

\* C20 as stated: in state IDLE every sda edge after which sda = 0 while scl = 1
\* emits one 'I2C start' event stamped with the cursor's current time and moves to
\* ADDR; every other edge emits nothing and leaves the state IDLE and the address
\* cache unchanged
C20_IdleStartEveryEdge ==
    [][\A s \in DOMAIN pc :
          IdlePass(s) => IF StartCondition(s) THEN EmitsStart(s) ELSE IgnoresEdge(s)]_vars

\* C20: in state IDLE an sda edge after which sda = 0 while scl = 1, and which is
\* not the last element of the sda stream, emits one 'I2C start' event stamped with
\* the cursor's current time and moves to ADDR; every other edge, that last element
\* included, emits nothing and leaves the state IDLE and the address cache unchanged
C20_IdleStart ==
    [][\A s \in DOMAIN pc :
          IdlePass(s) => IF StartCondition(s) /\ ~EsAtEndChan(edges[s], dec'[s], "sda")
                         THEN EmitsStart(s)
                         ELSE IgnoresEdge(s)]_vars

\* a start has just been emitted from IDLE after a stop, the address cache holding
\* the 10-bit address written before
C20_Witness ==
    LET o == out[Session]
        d == dec[Session]
    IN  /\ pc[Session] = "decode"
        /\ d.state = S_ADDR /\ d.cname = "sda" /\ d.bits = <<>>
        /\ d.prev_10b_addr # NoRecord
        /\ Len(o) >= 2
        /\ o[Len(o)] = StreamEvent(d.cur_time, "I2C start")
        /\ o[Len(o) - 1].kind = "I2C stop"

-----------------------------------------------------------------------------
(* C21: the stop condition *)

\* session s makes a pass of the decoding loop in one of ADDR, ADDR10, DATA
BusyPass(s) ==
    /\ pc[s] = "decode"
    /\ dec[s].state \in {S_ADDR, S_ADDR_10B, S_DATA}
    /\ dec'[s] # dec[s]

\* the edge the pass advanced to is an sda edge after which sda = 1 while scl = 1
StopCondition(s) ==
    /\ SdaEdge(s)
    /\ EsCurState(edges[s], dec'[s], "sda") = 1
    /\ EsCurState(edges[s], dec'[s], "scl") = 1

\* the pass emits one 'I2C stop' stamped with the cursor's time and moves to IDLE
EmitsStop(s) ==
    /\ Yielded(s) = <<StreamEvent(dec'[s].cur_time, "I2C stop")>>
    /\ dec'[s].state = S_IDLE

\* the times of the rising edges of an edge stream up to time te
RiseTimes(es, te) ==
    {es[k][1] : k \in {n \in 2..Len(es) : /\ es[n][2] = 1 /\ es[n - 1][2] = 0
                                          /\ es[n][1] <= te}}

\* the time of the first of the last n rising edges up to time te
NthRiseBack(es, te, n) ==
    LET rt == RiseTimes(es, te)
    IN  CHOOSE t \in rt : Cardinality({u \in rt : u >= t}) = n

\* the number of bytes an emitted record is built from
WireLen(rec) == IF rec.kind = "I2C address" THEN Len(rec.subrecords) ELSE 1

\* no emitted record holds bits from before a bus condition: between the first scl
\* rising edge of the bytes a Byte or Address record is built from and its end_time
\* no event was emitted
NoBitsAcrossEvents(s) ==
    \A k \in 1..Len(out[s]) :
        ~IsEvent(out[s][k]) =>
            LET rec == out[s][k]
                t1 == NthRiseBack(edges[s]["scl"], rec.end_time, 9 * WireLen(rec))
            IN  \A j \in 1..Len(out[s]) :
                    IsEvent(out[s][j]) =>
                        ~(t1 < out[s][j].time /\ out[s][j].time < rec.end_time)

\* C21 as stated: in ADDR, ADDR10 and DATA every sda edge after which sda = 1 while
\* scl = 1 emits exactly one 'I2C stop' event at the current time and moves to IDLE,
\* whatever the number of accumulated bits; the bits and a pending first address
\* byte appear in no later record
C21_StopEveryEdge ==
    /\ [][\A s \in DOMAIN pc : (BusyPass(s) /\ StopCondition(s)) => EmitsStop(s)]_vars
    /\ [](\A s \in DOMAIN pc : pc[s] # "decode" => NoBitsAcrossEvents(s))

\* C21: in ADDR, ADDR10 and DATA an sda edge after which sda = 1 while scl = 1, and
\* which is not the last element of the sda stream, emits exactly one 'I2C stop'
\* event at the current time and moves to IDLE, whatever the number of accumulated
\* bits; the bits and a pending first address byte appear in no later record
C21_Stop ==
    /\ [][\A s \in DOMAIN pc :
             (/\ BusyPass(s) /\ StopCondition(s)
              /\ ~EsAtEndChan(edges[s], dec'[s], "sda")) => EmitsStop(s)]_vars
    /\ [](\A s \in DOMAIN pc : pc[s] # "decode" => NoBitsAcrossEvents(s))

\* a stop has just been emitted with the first byte of a 10-bit address pending and
\* bits of the second byte in the accumulator
C21_Witness ==
    LET o == out[Session]
        d == dec[Session]
    IN  /\ pc[Session] = "decode"
        /\ d.state = S_IDLE /\ d.cname = "sda"
        /\ Len(d.bits) \in 1..8
        /\ d.first_addr.data = 244
        /\ Len(o) = 2
        /\ o[1].kind = "I2C start"
        /\ o[2] = StreamEvent(d.cur_time, "I2C stop")

-----------------------------------------------------------------------------
(* C22: the restart condition *)

\* the pass emits one 'I2C restart', empties the accumulator and moves to ADDR
EmitsRestart(s) ==
    /\ Yielded(s) = <<StreamEvent(dec'[s].cur_time, "I2C restart")>>
    /\ dec'[s].bits = <<>>
    /\ dec'[s].state = S_ADDR

\* the edge the pass advanced to is an scl rising edge the decoder samples
SclRise(s) ==
    /\ dec'[s].cname = "scl"
    /\ ~EsAtEndChan(edges[s], dec'[s], "scl")
    /\ EsCurState(edges[s], dec'[s], "scl") = 1

\* the pass samples the 9th bit of a byte
CompletesByte(s) == BusyPass(s) /\ Len(dec[s].bits) = 8 /\ Len(dec'[s].bits) = 0

\* the completed byte is taken as an address byte: an Address record is emitted, or
\* the byte is kept as the first byte of a 10-bit address
AddressDispatch(s) ==
    \/ /\ Len(Yielded(s)) = 1
       /\ Yielded(s)[1].kind = "I2C address"
       /\ dec'[s].state = S_DATA
    \/ /\ Yielded(s) = <<>>
       /\ dec'[s].state = S_ADDR_10B
       /\ dec'[s].first_addr.end_time = dec'[s].cur_time

\* C22 as stated: in ADDR, ADDR10 and DATA every sda edge after which sda = 0 while
\* scl = 1 emits exactly one 'I2C restart' event, empties the bit accumulator and
\* moves to ADDR, where the next completed byte is decoded as an address byte; the
\* bits and a pending first address byte from before the restart get no record
C22_RestartEveryEdge ==
    /\ [][\A s \in DOMAIN pc :
             /\ (BusyPass(s) /\ StartCondition(s)) => EmitsRestart(s)
             /\ (CompletesByte(s) /\ dec[s].state = S_ADDR) => AddressDispatch(s)]_vars
    /\ [](\A s \in DOMAIN pc : NoBitsAcrossEvents(s))

\* C22: in ADDR, ADDR10 and DATA an sda edge after which sda = 0 while scl = 1, and
\* which is not the last element of the sda stream, emits exactly one 'I2C restart'
\* event, empties the bit accumulator and moves to ADDR, where the next completed
\* byte is decoded as an address byte; the bits and a pending first address byte
\* from before the restart get no record
C22_Restart ==
    /\ [][\A s \in DOMAIN pc :
             /\ (/\ BusyPass(s) /\ StartCondition(s)
                 /\ ~EsAtEndChan(edges[s], dec'[s], "sda")) => EmitsRestart(s)
             /\ (CompletesByte(s) /\ dec[s].state = S_ADDR) => AddressDispatch(s)]_vars
    /\ [](\A s \in DOMAIN pc : NoBitsAcrossEvents(s))

\* a restart has just been emitted with the first byte of a 10-bit address pending;
\* the accumulator is empty
C22_Witness ==
    LET o == out[Session]
        d == dec[Session]
    IN  /\ pc[Session] = "decode"
        /\ d.state = S_ADDR /\ d.cname = "sda" /\ d.bits = <<>>
        /\ d.first_addr.data = 244
        /\ d.end_time > d.first_addr.end_time
        /\ Len(o) = 2
        /\ o[1].kind = "I2C start"
        /\ o[2] = StreamEvent(d.cur_time, "I2C restart")

-----------------------------------------------------------------------------
(* C23: what changes the bit accumulator outside IDLE *)

\* the pass advanced to an element of the scl stream that changes scl to level lv
SclEdgeTo(s, lv) ==
    /\ dec'[s].cname = "scl"
    /\ LET k == dec'[s].idx["scl"]
       IN  k > 1 /\ edges[s]["scl"][k][2] = lv /\ edges[s]["scl"][k - 1][2] # lv

\* the pass emits nothing and leaves the FSM state, the accumulator, the pending
\* first address byte and the address cache as they were
LeavesFrame(s) ==
    /\ Yielded(s) = <<>>
    /\ dec'[s].state = dec[s].state
    /\ dec'[s].bits = dec[s].bits
    /\ dec'[s].first_addr = dec[s].first_addr
    /\ dec'[s].prev_10b_addr = dec[s].prev_10b_addr

\* C23: in ADDR, ADDR10 and DATA the accumulator gets a bit only on an scl rising
\* edge, and the bit is the sda level at that edge; an scl falling edge and an sda
\* edge while scl = 0 emit nothing and leave the FSM state, the accumulator, the
\* pending first address byte and the address cache unchanged
C23_BitFrame ==
    [][\A s \in DOMAIN pc :
          BusyPass(s) =>
              /\ (Len(dec'[s].bits) = Len(dec[s].bits) + 1 \/ CompletesByte(s))
                     => SclEdgeTo(s, 1)
              /\ Len(dec'[s].bits) = Len(dec[s].bits) + 1
                     => dec'[s].bits =
                            Append(dec[s].bits, EsCurState(edges[s], dec'[s], "sda"))
              /\ ~SclEdgeTo(s, 1)
                     => \/ dec'[s].bits = dec[s].bits
                        \/ dec'[s].bits = <<>> /\ StartCondition(s)
              /\ SclEdgeTo(s, 0) => LeavesFrame(s)
              /\ (SdaEdge(s) /\ EsCurState(edges[s], dec'[s], "scl") = 0)
                     => LeavesFrame(s)]_vars

\* an scl falling edge has just been passed in ADDR10 with the first address byte
\* pending and three bits of the second byte accumulated
C23_Witness ==
    LET d == dec[Session]
    IN  /\ pc[Session] = "decode"
        /\ d.state = S_ADDR_10B
        /\ d.cname = "scl"
        /\ EsCurState(edges[Session], d, "scl") = 0
        /\ Len(d.bits) = 3
        /\ d.first_addr.data = 244

-----------------------------------------------------------------------------
(* C24: the dispatch of a 7-bit address *)

\* the nine levels of the byte the pass completes: the accumulator and the sda level
\* sampled by the pass
NineBits(s) == Append(dec[s].bits, EsCurState(edges[s], dec'[s], "sda"))

\* the value of eight levels read most significant bit first
MsbFirst(b) ==
    128 * b[1] + 64 * b[2] + 32 * b[3] + 16 * b[4] + 8 * b[5] + 4 * b[6] + 2 * b[7] + b[8]

\* rec is a Byte record with value word and acknowledge bit ack
IsByteOf(rec, word, ack) ==
    rec.kind = "I2C byte" /\ rec.data = word /\ rec.ack_bit = ack

\* C24: in state ADDR, when the 9th bit arrives and addr7 = word >> 1 is <= 0x77, the
\* decoder emits one Address record with value addr7 and r_wn = word & 1, whose one
\* Byte child has the whole 8-bit word, bits MSB first, as data and the 9th bit as
\* ack_bit, and moves to DATA
C24_Addr7Dispatch ==
    [][\A s \in DOMAIN pc :
          (CompletesByte(s) /\ dec[s].state = S_ADDR) =>
              LET word == MsbFirst(NineBits(s))
              IN  word \div 2 <= 119 =>
                      /\ Len(Yielded(s)) = 1
                      /\ LET na == Yielded(s)[1]
                         IN  /\ na.kind = "I2C address"
                             /\ na.data = word \div 2
                             /\ na.r_wn = word % 2
                             /\ Len(na.subrecords) = 1
                             /\ IsByteOf(na.subrecords[1], word, NineBits(s)[9])
                      /\ dec'[s].state = S_DATA]_vars

\* the address byte 0xEF, address 0x77 read and not acknowledged, has just been
\* decoded
C24_Witness ==
    LET o == out[Session]
        d == dec[Session]
    IN  /\ pc[Session] = "decode"
        /\ d.state = S_DATA /\ d.bits = <<>> /\ d.cname = "scl"
        /\ d.end_time = d.cur_time
        /\ Len(o) = 2
        /\ o[2].kind = "I2C address" /\ o[2].data = 119 /\ o[2].r_wn = 1
        /\ o[2].subrecords = <<I2CByte(<<o[2].start_time, o[2].end_time>>, 239, 1)>>

-----------------------------------------------------------------------------
(* C25: the two bytes of a 10-bit write address *)

\* C25: in state ADDR a completed byte with addr7 > 0x77 and r_wn = 0 emits no record
\* and moves to ADDR10, the byte pending; the next completed byte w then emits one
\* Address record with value (((first >> 1) & 3) << 8) | w and r_wn bit 0 of the
\* first byte, whose two Byte children are the first and the second byte in wire
\* order and which spans from the start time of the first byte to the end time of
\* the second; the record becomes the most recent 10-bit address and the state DATA
C25_Addr10Write ==
    [][\A s \in DOMAIN pc :
          CompletesByte(s) =>
              LET word == MsbFirst(NineBits(s))
                  ack == NineBits(s)[9]
                  first == dec[s].first_addr
              IN  /\ (dec[s].state = S_ADDR /\ word \div 2 > 119 /\ word % 2 = 0)
                         => /\ Yielded(s) = <<>>
                            /\ dec'[s].state = S_ADDR_10B
                            /\ IsByteOf(dec'[s].first_addr, word, ack)
                            /\ dec'[s].prev_10b_addr = dec[s].prev_10b_addr
                  /\ dec[s].state = S_ADDR_10B
                         => /\ Len(Yielded(s)) = 1
                            /\ LET na == Yielded(s)[1]
                               IN  /\ na.kind = "I2C address"
                                   /\ na.data = ((first.data \div 2) % 4) * 256 + word
                                   /\ na.r_wn = first.data % 2
                                   /\ Len(na.subrecords) = 2
                                   /\ na.subrecords[1] = first
                                   /\ IsByteOf(na.subrecords[2], word, ack)
                                   /\ na.start_time = first.start_time
                                   /\ na.end_time = na.subrecords[2].end_time
                                   /\ na.end_time = dec'[s].cur_time
                                   /\ first.end_time < na.subrecords[2].end_time
                                   /\ dec'[s].prev_10b_addr = na
                            /\ dec'[s].state = S_DATA]_vars

\* the second byte of the write address 0x3FF has just been decoded: bytes 0xF6, 0xFF
C25_Witness ==
    LET o == out[Session]
        d == dec[Session]
    IN  /\ pc[Session] = "decode"
        /\ d.state = S_DATA /\ d.bits = <<>> /\ d.cname = "scl"
        /\ d.end_time = d.cur_time
        /\ Len(o) = 2
        /\ o[2].kind = "I2C address" /\ o[2].data = 1023 /\ o[2].r_wn = 0
        /\ Len(o[2].subrecords) = 2
        /\ o[2].subrecords[1].data = 246 /\ o[2].subrecords[2].data = 255
        /\ d.prev_10b_addr = o[2]

-----------------------------------------------------------------------------
(* C26: the resolution of a 10-bit read *)

\* C26: in state ADDR a completed byte with addr7 > 0x77 and r_wn = 1 emits one
\* Address record with r_wn = 1 and one Byte child and moves to DATA; when an
\* address C is cached and (C >> 8) & 3 equals addr7 & 3 the value of the record is
\* exactly C; resolved or not, the read leaves the cached address as it was
C26_Addr10Read ==
    [][\A s \in DOMAIN pc :
          (CompletesByte(s) /\ dec[s].state = S_ADDR) =>
              LET word == MsbFirst(NineBits(s))
                  cache == dec[s].prev_10b_addr
              IN  (word \div 2 > 119 /\ word % 2 = 1) =>
                      /\ Len(Yielded(s)) = 1
                      /\ LET na == Yielded(s)[1]
                         IN  /\ na.kind = "I2C address"
                             /\ na.r_wn = 1
                             /\ Len(na.subrecords) = 1
                             /\ IsByteOf(na.subrecords[1], word, NineBits(s)[9])
                             /\ (/\ cache # NoRecord
                                 /\ (cache.data \div 256) % 4 = (word \div 2) % 4)
                                    => na.data = cache.data
                      /\ dec'[s].state = S_DATA
                      /\ dec'[s].prev_10b_addr = cache]_vars

\* a read with header 0xF5 has just been resolved to the cached address 0x2F0, and
\* the cache still holds the two-byte Address record of the write
C26_Witness ==
    LET o == out[Session]
        d == dec[Session]
    IN  /\ pc[Session] = "decode"
        /\ d.state = S_DATA /\ d.bits = <<>> /\ d.cname = "scl"
        /\ d.end_time = d.cur_time
        /\ Len(o) >= 4
        /\ o[Len(o)].kind = "I2C address" /\ o[Len(o)].data = 752 /\ o[Len(o)].r_wn = 1
        /\ Len(o[Len(o)].subrecords) = 1
        /\ o[Len(o)].subrecords[1].data = 245
        /\ d.prev_10b_addr = o[2]
        /\ Len(o[2].subrecords) = 2

-----------------------------------------------------------------------------
(* i2c_decode over the waveform of three transfers, a 10-bit addressed      *)
(* write, any transaction and a 10-bit addressed read, and over streams in  *)
(* which a stop and a start separate the transactions                       *)

CacheMiddle ==
    {I2CTransfer(rw, a, dt) : rw \in {I2C_Write, I2C_Read}, a \in {80, 120, 1023},
                              dt \in {<<>>, <<1>>}}

CacheLists ==
    {<<I2CTransfer(I2C_Write, a, <<>>), m, I2CTransfer(I2C_Read, b, <<1>>)>> :
        a \in {120, 752}, m \in CacheMiddle, b \in {752, 753, 1023}}

\* a write to 0x2F0, a stop, a write to 0x50, a stop, a read with header 0xF5; and a
\* write to 0x2F0, a stop, a read with header 0xF5, a restart, the same read again
CacheScripts ==
    {<< <<"start", 0, 0>>, <<"byte", 244, 0>>, <<"byte", 240, 1>>, <<"stop", 0, 0>>,
        <<"start", 0, 0>>, <<"byte", 160, 0>>, <<"stop", 0, 0>>,
        <<"start", 0, 0>>, <<"byte", 245, 0>>, <<"stop", 0, 0>>, <<"sda", 0, 0>> >>,
     << <<"start", 0, 0>>, <<"byte", 244, 0>>, <<"byte", 240, 1>>, <<"stop", 0, 0>>,
        <<"start", 0, 0>>, <<"byte", 245, 0>>, <<"byte", 240, 1>>,
        <<"start", 0, 0>>, <<"byte", 245, 0>>, <<"stop", 0, 0>>, <<"sda", 0, 0>> >>}

InitCache ==
    /\ \E tm \in TimingChoices :
          /\ quarter = tm[1]
          /\ idle_start = tm[2]
          /\ idle_end = tm[3]
    /\ chan_order = "unset"
    /\ \/ /\ transfers \in CacheLists
          /\ syn = SynInit
          /\ edges = [s \in {Session} |-> [scl |-> <<>>, sda |-> <<>>]]
          /\ pc = [s \in {Session} |-> "synth"]
       \/ /\ transfers = <<>>
          /\ syn = [SynInit EXCEPT !.stage = "returned"]
          /\ \E script \in CacheScripts : edges = [s \in {Session} |-> BusEdges(script)]
          /\ pc = [s \in {Session} |-> "decode"]
    /\ feed = [closed |-> TRUE, n |-> 0, t |-> 0]
    /\ dec = [s \in {Session} |-> DecInit]
    /\ out = [s \in {Session} |-> <<>>]
    /\ rc = ReconInit
    /\ tfers = <<>>
    /\ nstat = None

SpecCache == InitCache /\ [][Next]_vars

-----------------------------------------------------------------------------
(* C27: the lifetime of the cached 10-bit address *)

\* the positions before position n of the two-byte Address records of o
TwoByteBefore(o, n) ==
    {k \in 1..(n - 1) : o[k].kind = "I2C address" /\ Len(o[k].subrecords) = 2}

\* the two-byte Address record emitted last before position n of o, if any
LastTwoByte(o, n) ==
    LET ks == TwoByteBefore(o, n)
    IN  IF ks = {} THEN NoRecord ELSE o[CHOOSE k \in ks : \A j \in ks : j <= k]

\* the record at position k of o is the Address of a 10-bit addressed read
IsRead10(o, k) ==
    /\ o[k].kind = "I2C address"
    /\ Len(o[k].subrecords) = 1
    /\ o[k].subrecords[1].data \div 2 > 119
    /\ o[k].subrecords[1].data % 2 = 1

\* C27: within a session the cached 10-bit address is empty at first and is at all
\* times the two-byte Address record emitted last, whatever Stop, Start, Restart,
\* 7-bit transaction or 10-bit read came after it; it changes only in the pass that
\* completes the second address byte in ADDR10; so every 10-bit read is resolved
\* against the two-byte Address record emitted last before it, however many
\* transactions lie between them
C27_CacheLifetime ==
    /\ [](\A s \in DOMAIN pc :
             /\ dec[s].prev_10b_addr = LastTwoByte(out[s], Len(out[s]) + 1)
             /\ \A k \in 1..Len(out[s]) :
                   IsRead10(out[s], k) =>
                       LET c == LastTwoByte(out[s], k)
                       IN  out[s][k].data =
                               IF /\ c # NoRecord
                                  /\ (c.data \div 256) % 4
                                         = (out[s][k].subrecords[1].data \div 2) % 4
                               THEN c.data
                               ELSE InvalidAddr)
    /\ [][\A s \in DOMAIN pc :
             dec'[s].prev_10b_addr # dec[s].prev_10b_addr
                 => CompletesByte(s) /\ dec[s].state = S_ADDR_10B]_vars

\* a write to 0x2F0, a stop, a start, a 7-bit addressed write to 0x50, a stop, a start
\* and, two transactions after the first, a 10-bit read decoded as a read of 0x2F0
C27_Witness ==
    LET o == out[Session]
    IN  /\ pc[Session] = "recon"
        /\ \E k \in 1..Len(o) :
              /\ IsRead10(o, k) /\ o[k].data = 752
              /\ TwoByteBefore(o, k) = {2}
              /\ \E j \in 3..(k - 1) : o[j].kind = "I2C address" /\ o[j].data = 80
              /\ CountKind(SubSeq(o, 3, k - 1), "I2C stop") = 2
              /\ CountKind(SubSeq(o, 3, k - 1), "I2C start") = 2
        /\ dec[Session].prev_10b_addr = o[2]

-----------------------------------------------------------------------------
(* i2c_decode over streams with data bytes, complete or cut off at any time *)

\* a write of 0xF5 and 0xF0 (not acknowledged) to 0x50; a write of 0xF5 to 0x2F0
\* with a restart inside the next byte and a write to 0x50 after it; a write to
\* 0x50 with a stop inside the first data byte and another write after it
DataScripts ==
    {<< <<"start", 0, 0>>, <<"byte", 160, 0>>, <<"byte", 245, 0>>, <<"byte", 240, 1>>,
        <<"stop", 0, 0>>, <<"sda", 0, 0>> >>,
     << <<"start", 0, 0>>, <<"bytes", 244, 240>>, <<"byte", 245, 0>>, <<"bit", 1, 0>>,
        <<"start", 0, 0>>, <<"byte", 160, 0>>, <<"byte", 240, 1>>, <<"stop", 0, 0>>,
        <<"sda", 0, 0>> >>,
     << <<"start", 0, 0>>, <<"byte", 160, 0>>, <<"bit", 1, 0>>, <<"stop", 0, 0>>,
        <<"start", 0, 0>>, <<"byte", 160, 0>>, <<"byte", 245, 0>>, <<"stop", 0, 0>>,
        <<"sda", 0, 0>> >>}

\* the time of the last element of the streams e
BusEnd(e) ==
    LET a == e.scl[Len(e.scl)][1]
        b == e.sda[Len(e.sda)][1]
    IN  IF a > b THEN a ELSE b

\* the streams e as far as they were captured up to time t
CutAt(e, t) ==
    LET Captured(x) == x[1] <= t
    IN  [ch \in Channels |-> SelectSeq(e[ch], Captured)]

InitData ==
    /\ transfers = <<>>
    /\ quarter = 1
    /\ idle_start = 0
    /\ idle_end = 0
    /\ chan_order = "unset"
    /\ syn = [SynInit EXCEPT !.stage = "returned"]
    /\ \E script \in DataScripts : \E t \in 1..BusEnd(BusEdges(script)) :
          edges = [s \in {Session} |-> CutAt(BusEdges(script), t)]
    /\ feed = [closed |-> TRUE, n |-> 0, t |-> 0]
    /\ dec = [s \in {Session} |-> DecInit]
    /\ out = [s \in {Session} |-> <<>>]
    /\ rc = ReconInit
    /\ tfers = <<>>
    /\ pc = [s \in {Session} |-> "decode"]
    /\ nstat = None

NextData ==
    \/ Decode(Session)
    \/ DecodeEnd(Session)

SpecData == InitData /\ [][NextData]_vars

-----------------------------------------------------------------------------
(* C28: the bytes decoded in DATA *)

\* session s makes a pass of the decoding loop in state DATA
DataPass(s) == BusyPass(s) /\ dec[s].state = S_DATA

\* the pass emits what the 9 bits of a data byte call for: one Byte record with the
\* first 8 levels, MSB first, as value and the 9th as ack_bit, the state still DATA
EmitsDataByte(s) ==
    /\ Len(Yielded(s)) = 1
    /\ IsByteOf(Yielded(s)[1], MsbFirst(NineBits(s)), NineBits(s)[9])
    /\ Yielded(s)[1].end_time = dec'[s].cur_time
    /\ dec'[s].bits = <<>>
    /\ dec'[s].state = S_DATA

\* what a pass in DATA does when Ninth tells that its edge is the 9th scl rising edge
\* of a group: that edge emits the Byte, the 8 before it only add their bit, no
\* other edge emits a Byte, and only a stop or a restart leaves DATA
DataLoop(s, Ninth) ==
    /\ Ninth => EmitsDataByte(s)
    /\ (SclRise(s) /\ Len(dec[s].bits) < 8)
           => /\ Yielded(s) = <<>>
              /\ dec'[s].bits = Append(dec[s].bits, EsCurState(edges[s], dec'[s], "sda"))
              /\ dec'[s].state = S_DATA
    /\ (\E k \in 1..Len(Yielded(s)) : ~IsEvent(Yielded(s)[k])) => Ninth
    /\ dec'[s].state # S_DATA
           => \/ StopCondition(s) /\ EmitsStop(s)
              \/ StartCondition(s) /\ EmitsRestart(s)

\* C28 as stated: in state DATA every group of 9 consecutive scl rising edges not
\* interrupted by a stop or restart condition emits exactly one Byte record, its
\* value the first 8 sampled sda levels read MSB first and its ack_bit the 9th, and
\* the state remains DATA; only a stop or restart condition leaves DATA
C28_DataLoopEveryEdge ==
    [][\A s \in DOMAIN pc :
          DataPass(s) => DataLoop(s, SclEdgeTo(s, 1) /\ Len(dec[s].bits) = 8)]_vars

\* C28: in state DATA every group of 9 consecutive scl rising edges, none of them
\* the last element of the scl stream, not interrupted by a stop or restart
\* condition emits exactly one Byte record, its value the first 8 sampled sda levels
\* read MSB first and its ack_bit the 9th, and the state remains DATA; only a stop
\* or restart condition leaves DATA
C28_DataLoop ==
    [][\A s \in DOMAIN pc :
          DataPass(s) =>
              DataLoop(s, SclRise(s) /\ Len(dec[s].bits) = 8)]_vars

\* the second data byte in a row, 0xF0 not acknowledged after 0xF5, has just been
\* decoded in DATA
C28_Witness ==
    LET o == out[Session]
        d == dec[Session]
    IN  /\ pc[Session] = "decode"
        /\ d.state = S_DATA /\ d.bits = <<>> /\ d.cname = "scl"
        /\ d.end_time = d.cur_time
        /\ Len(o) = 4
        /\ o[2].kind = "I2C address"
        /\ IsByteOf(o[3], 245, 0)
        /\ IsByteOf(o[4], 240, 1)
        /\ o[4].end_time = d.cur_time

-----------------------------------------------------------------------------
(* C29: the timing of the bits of a synthesized byte; times are counted in   *)
(* quarters of the clock period, half_bit_period / 2                        *)

\* the synthesizer puts out a byte in this step
SynByteStep == pc[Session] = "synth" /\ syn.stage = "bytes" /\ syn'.j = syn.j + 1

\* bit k (0..8) of wire byte j of a transfer: the 8 bits MSB first, then the ack bit
WireBit(tfer, j, k) ==
    IF k = 8 THEN TransferAckBits(tfer)[j]
    ELSE (TransferBytes(tfer)[j] \div (2 ^ (7 - k))) % 2

\* the times of the rising edges of an edge stream, in order
RiseSeq(es) ==
    LET Rises(k) == k > 1 /\ es[k][2] = 1 /\ es[k - 1][2] = 0
        ks == SelectSeq([k \in 1..Len(es) |-> k], Rises)
    IN  [n \in 1..Len(ks) |-> es[ks[n]][1]]

\* C29: each of the 9 bits of every wire byte takes one clock period: sda is set,
\* scl rises a quarter period later, falls a half period after that, and the next
\* bit begins a quarter period later; sda keeps its level from the one sample to
\* the next while scl is high; consecutive scl rising edges of the synthesized
\* stream are one clock period apart
C29_BitTiming ==
    /\ [][SynByteStep =>
             LET n == Len(syn.raw)
                 q == quarter
                 raw == syn'.raw
             IN  /\ Len(raw) = n + 27
                 /\ \A k \in 0..8 :
                       LET b == WireBit(transfers[syn.i], syn.j, k)
                           t0 == syn.t + 4 * q * k
                       IN  /\ raw[n + 3 * k + 1] = [t |-> t0, scl |-> 0, sda |-> b]
                           /\ raw[n + 3 * k + 2] = [t |-> t0 + q, scl |-> 1, sda |-> b]
                           /\ raw[n + 3 * k + 3] = [t |-> t0 + 3 * q, scl |-> 0, sda |-> b]
                 /\ syn'.t = syn.t + 36 * q]_vars
    /\ [](pc[Session] \in {"decode", "recon", "done"} =>
             LET rs == RiseSeq(edges[Session]["scl"])
             IN  \A k \in 2..Len(rs) : rs[k] - rs[k - 1] = 4 * quarter)

\* the second wire byte of a transfer has just been put out at a quarter period of
\* two time units
C29_Witness ==
    /\ pc[Session] = "synth"
    /\ quarter = 2
    /\ syn.stage = "bytes" /\ syn.i = 1 /\ syn.j = 3
    /\ Len(syn.raw) = 3 + 54
    /\ syn.t = 4 + 2 * 36 * 2

-----------------------------------------------------------------------------
(* C30: the timing of a synthesized start condition; half_bit_period is two  *)
(* quarters of the clock period                                             *)

\* the time from t to the first fall of an edge stream after t
FallAfter(es, t) ==
    LET ks == {k \in 2..Len(es) : es[k][2] = 0 /\ es[k - 1][2] = 1 /\ es[k][1] > t}
    IN  es[CHOOSE k \in ks : \A j \in ks : k <= j][1] - t

\* in every start condition of the streams i2c_synth has returned for one or more
\* transfers (with no transfer no start is generated) scl falls d after sda falls
StartSpacing(d) ==
    (pc[Session] = "decode" /\ dec[Session] = DecInit /\ Len(transfers) >= 1) =>
        LET e == edges[Session]
        IN  \A k \in SdaChangesSclHigh(e, 0) : FallAfter(e.scl, e.sda[k][1]) = d

\* C30 as stated: in every start condition the synthesizer emits, scl falls one
\* half_bit_period, 1 / (2 * clock_freq), after sda falls
C30_StartHalfBitPeriod == StartSpacing(2 * quarter)

\* C30: in every start condition the synthesizer emits, scl falls half of one
\* half_bit_period, 1 / (4 * clock_freq), after sda falls
C30_StartQuarterPeriod == StartSpacing(quarter)

\* the streams of two transfers, a start and a repeated start, at a quarter period
\* of two time units
C30_Witness ==
    /\ pc[Session] = "decode"
    /\ dec[Session] = DecInit
    /\ quarter = 2
    /\ Len(transfers) = 2
    /\ Cardinality(SdaChangesSclHigh(edges[Session], 0)) = 2
    /\ FallAfter(edges[Session].scl, 0) = 2

-----------------------------------------------------------------------------
(* C31: the records the reconstructor passes over *)

\* the Byte and Address records of o, in order
BytesAndAddresses(o) ==
    LET Kept(rec) == rec.kind \in {"I2C byte", "I2C address"}
    IN  SelectSeq(o, Kept)

\* the reconstructor consumes a record in this step
ReconStep == pc[Session] = "recon" /\ rc'.pos = rc.pos + 1

\* C31: Start, Restart and Stop events and any other record that is neither a Byte
\* nor an Address never change what the reconstructor yields: the input without
\* them gives the same transfers; the pass over such a record, a Stop included,
\* yields nothing and keeps the current address and data, and so does the pass over
\* a Byte record that comes before the first Address record
C31_ReconFrame ==
    /\ [](pc[Session] = "done" =>
             tfers = reconstruct_i2c_transfers(BytesAndAddresses(out[Session])))
    /\ [][ReconStep =>
             LET rec == out[Session][rc.pos]
             IN  (\/ rec.kind \notin {"I2C byte", "I2C address"}
                  \/ rec.kind = "I2C byte" /\ rc.cur_addr = NoRecord)
                     => /\ tfers' = tfers
                        /\ rc' = [rc EXCEPT !.pos = @ + 1]]_vars

\* a Byte before the first Address is dropped, and the Bytes on either side of a
\* Stop are the data of one transfer
C31_Witness ==
    /\ pc[Session] = "done"
    /\ Len(out[Session]) = 5
    /\ out[Session][1].kind = "I2C byte"
    /\ out[Session][2].kind = "I2C address"
    /\ out[Session][3].kind = "I2C byte" /\ out[Session][3].data = 1
    /\ out[Session][4].kind = "I2C stop"
    /\ out[Session][5].kind = "I2C byte" /\ out[Session][5].data = 2
    /\ Len(tfers) = 1
    /\ tfers[1].data = <<1, 2>>

-----------------------------------------------------------------------------
(* C32: the grammar of the emitted records *)

\* the kind of the event emitted last before position k of o, "none" if there is none
EventBefore(o, k) ==
    LET ks == {j \in 1..(k - 1) : IsEvent(o[j])}
    IN  IF ks = {} THEN "none" ELSE o[CHOOSE j \in ks : \A i \in ks : i <= j].kind

\* C32: over any input edge streams the events i2c_decode emits form a prefix of
\* (Start Restart* Stop)*: a Start is the first event or follows a Stop, a Restart
\* and a Stop follow a Start or a Restart; Address and Byte records come only
\* between a Start and the Stop after it; and in each run delimited by Start or
\* Restart the first segment is an Address and every later one a Byte
C32_EventGrammar ==
    \A s \in DOMAIN out : \A k \in 1..Len(out[s]) :
        LET o == out[s]
            before == EventBefore(o, k)
        IN  /\ o[k].kind = "I2C start" => before \in {"none", "I2C stop"}
            /\ o[k].kind \in {"I2C restart", "I2C stop"}
                   => before \in {"I2C start", "I2C restart"}
            /\ IsSegment(o[k]) => before \in {"I2C start", "I2C restart"}
            /\ o[k].kind = "I2C address" => IsEvent(o[k - 1])
            /\ o[k].kind = "I2C byte" => IsSegment(o[k - 1])
            /\ o[k].kind \in {"I2C start", "I2C restart", "I2C stop",
                              "I2C address", "I2C byte"}

\* a start, an address, a restart and a second address are out
C32_Witness ==
    LET o == out[Session]
    IN  /\ Len(o) = 4
        /\ o[1].kind = "I2C start"
        /\ o[2].kind = "I2C address"
        /\ o[3].kind = "I2C restart"
        /\ o[4].kind = "I2C address"

-----------------------------------------------------------------------------
(* C33: the lengths of ack_bits() and bytes() *)

\* C33: for every I2CTransfer, with a 7-bit or a 10-bit address, read or write, with
\* any number of data bytes, ack_bits() is as long as bytes(), so that ack_bits()[j]
\* is the ack bit of wire byte bytes()[j]
C33_AckBitsMatchBytes ==
    \A k \in 1..Len(transfers) :
        Len(TransferAckBits(transfers[k])) = Len(TransferBytes(transfers[k]))

-----------------------------------------------------------------------------
(* C34: the raw output of _i2c_synth *)

\* sample k of the raw output changes sda while scl is high
SdaChangeSclHigh(raw, k) ==
    k > 1 /\ raw[k].sda # raw[k - 1].sda /\ raw[k].scl = 1

\* C34: in the raw output of _i2c_synth the timestamps never decrease, and from the
\* first step after the initial sample on they increase, so that no two transitions
\* share a timestamp; every step changes the level of at most one of scl and sda;
\* sda changes while scl is high only in the steps that generate a start, a
\* repeated start or the stop: once per transfer, falling, and once in the stop,
\* rising
C34_RawWellFormed ==
    /\ [](pc[Session] = "synth" /\ syn.stage = "end" =>
             LET raw == syn.raw
             IN  /\ \A k \in 2..Len(raw) :
                       /\ raw[k].t >= raw[k - 1].t
                       /\ k > 2 => raw[k].t > raw[k - 1].t
                       /\ ~(raw[k].scl # raw[k - 1].scl /\ raw[k].sda # raw[k - 1].sda)
                 /\ Len(transfers) >= 1 =>
                       /\ Cardinality({k \in 1..Len(raw) :
                              SdaChangeSclHigh(raw, k) /\ raw[k].sda = 0}) = Len(transfers)
                       /\ Cardinality({k \in 1..Len(raw) :
                              SdaChangeSclHigh(raw, k) /\ raw[k].sda = 1}) = 1)
    /\ [][(pc[Session] = "synth" /\ pc'[Session] = "synth") =>
             \A k \in (Len(syn.raw) + 1)..Len(syn'.raw) :
                 SdaChangeSclHigh(syn'.raw, k) => syn.stage = "start"]_vars

\* the complete raw output for two transfers with idle time before the first start
C34_Witness ==
    /\ pc[Session] = "synth"
    /\ syn.stage = "end"
    /\ Len(transfers) = 2
    /\ idle_start = 1
    /\ Len(syn.raw) > 60

-----------------------------------------------------------------------------
(* C35: the clock edges the synthesizer produces before a repeated start and *)
(* before the stop                                                           *)

\* the sum of f[k] over the positions of a sequence of naturals
RECURSIVE SumSeq(_)
SumSeq(f) == IF f = <<>> THEN 0 ELSE f[1] + SumSeq(Tail(f))

\* the number of Byte records of a record sequence, top-level records and the
\* children of its Address records together
ByteRecords(o) ==
    CountKind(o, "I2C byte") + SumSeq([k \in 1..Len(o) |-> Len(o[k].subrecords)])

\* C35: in the decoding of a synthesized transfer list the number of top-level
\* Address and Byte records is the sum over the list of 1 + the number of data
\* bytes, and the number of Byte records, top-level and Address children together,
\* is the sum over the list of len(bytes())
C35_SpuriousClockEdges ==
    DecodeDone =>
        LET o == out[Session]
        IN  /\ CountKind(o, "I2C address") + CountKind(o, "I2C byte")
                   = SumSeq([k \in 1..Len(transfers) |-> 1 + Len(transfers[k].data)])
            /\ ByteRecords(o)
                   = SumSeq([k \in 1..Len(transfers) |-> Len(TransferBytes(transfers[k]))])

\* a decoded list of two transfers with data, the first a 10-bit write: the clock
\* rises once more before the repeated start and once more before the stop
C35_Witness ==
    /\ DecodeDone
    /\ Len(transfers) = 2
    /\ IsAddr10(transfers[1]) /\ transfers[1].r_wn = I2C_Write
    /\ Len(transfers[1].data) = 2 /\ Len(transfers[2].data) = 1
    /\ CountKind(out[Session], "I2C restart") = 1
    /\ CountKind(out[Session], "I2C stop") = 1
    /\ ByteRecords(out[Session]) = 6
    /\ RisingEdges(edges[Session].scl, 0, 100000) = 9 * 6 + 2

-----------------------------------------------------------------------------
(* C36: the size of the bit accumulator *)

\* a pass of the decoding loop of session s
DecoderPass(s) == pc[s] = "decode" /\ dec'[s] # dec[s]

\* the pass yields a record of one of the kinds
YieldsKind(s, kinds) ==
    \E k \in 1..Len(Yielded(s)) : Yielded(s)[k].kind \in kinds

\* C36: between two passes of the decoding loop the accumulator holds at most 8
\* bits; the pass that samples a 9th bit dispatches the byte (an Address or Byte
\* record, or the pending first byte of a 10-bit address) and leaves the accumulator
\* empty; and the accumulator is empty after every pass that enters ADDR by a Start
\* or Restart, that enters ADDR10, or that emits an Address or Byte record
C36_AccumulatorBound ==
    /\ [](\A s \in DOMAIN pc : Len(dec[s].bits) <= 8)
    /\ [][\A s \in DOMAIN pc :
             DecoderPass(s) =>
                 /\ (BusyPass(s) /\ SclRise(s) /\ Len(dec[s].bits) = 8)
                        => /\ dec'[s].bits = <<>>
                           /\ \/ YieldsKind(s, {"I2C address", "I2C byte"})
                              \/ (dec[s].state = S_ADDR /\ dec'[s].state = S_ADDR_10B)
                 /\ YieldsKind(s, {"I2C start", "I2C restart"})
                        => dec'[s].state = S_ADDR /\ dec'[s].bits = <<>>
                 /\ (dec'[s].state = S_ADDR /\ dec[s].state # S_ADDR)
                        => dec'[s].bits = <<>>
                 /\ (dec'[s].state = S_ADDR_10B /\ dec[s].state # S_ADDR_10B)
                        => dec'[s].bits = <<>>
                 /\ YieldsKind(s, {"I2C address", "I2C byte"})
                        => dec'[s].bits = <<>>]_vars

\* the decoder is in ADDR10 with an empty accumulator right after the scl rising
\* edge that completed the first byte of a 10-bit address
C36_Witness ==
    LET d == dec[Session]
    IN  /\ pc[Session] = "decode"
        /\ d.state = S_ADDR_10B
        /\ d.bits = <<>>
        /\ d.cname = "scl"
        /\ d.first_addr.end_time = d.cur_time
        /\ out[Session][Len(out[Session])].kind = "I2C restart"

-----------------------------------------------------------------------------
(* C37: the pending first byte of a 10-bit address *)

\* the word is the first byte of a 10-bit addressed write
IsHeader10Write(word) == word \div 2 > 119 /\ word % 2 = 0

\* C37: whenever the FSM state is ADDR10 the pending first address byte is a Byte
\* with addr7 > 0x77 and r_wn bit 0 that was completed after the Start or Restart
\* that opened the current run, with nothing emitted since; every Address record
\* with two Byte children has r_wn = Write, and every Address record with one Byte
\* child whose word has addr7 > 0x77 has r_wn = Read
C37_PendingFirstAddr ==
    \A s \in DOMAIN pc :
        LET d == dec[s]
            o == out[s]
        IN  /\ d.state = S_ADDR_10B =>
                  /\ d.first_addr # NoRecord
                  /\ d.first_addr.kind = "I2C byte"
                  /\ IsHeader10Write(d.first_addr.data)
                  /\ o # <<>>
                  /\ o[Len(o)].kind \in {"I2C start", "I2C restart"}
                  /\ o[Len(o)].time < d.first_addr.end_time
            /\ \A k \in 1..Len(o) :
                  o[k].kind = "I2C address" =>
                      /\ Len(o[k].subrecords) \in {1, 2}
                      /\ Len(o[k].subrecords) = 2 =>
                            /\ o[k].r_wn = I2C_Write
                            /\ IsHeader10Write(o[k].subrecords[1].data)
                      /\ (Len(o[k].subrecords) = 1 /\ o[k].subrecords[1].data \div 2 > 119)
                            => o[k].r_wn = I2C_Read

\* the decoder is in ADDR10 with the first byte 0xF4 pending and two bits of the
\* second address byte accumulated, the Start being the last record emitted
C37_Witness ==
    LET d == dec[Session]
        o == out[Session]
    IN  /\ pc[Session] = "decode"
        /\ d.state = S_ADDR_10B
        /\ d.first_addr.data = 244
        /\ Len(d.bits) = 2
        /\ o # <<>>
        /\ o[Len(o)].kind = "I2C start"

====
